---- MODULE Spec2Model ----
(***************************************************************************)
(* The background image optimizer of catwatch: the scheduler loop          *)
(* (imageOptimizerLoop), one batch (optimizeImagesBatch) with its feeder,  *)
(* worker and collector goroutines, the transform (optimizeBytes) and the  *)
(* store operations on image rows (internal/storage).                      *)
(*                                                                         *)
(* Image bytes are not modelled byte by byte.  A payload is a record       *)
(*   [len, dec, w, h, enc]                                                 *)
(* len = len(data); dec = some decoder accepts the bytes; w, h = the       *)
(* decoded (orientation-corrected) dimensions; enc = the length of the     *)
(* WebP encoding the transform produces for these bytes.  dec, w, h and    *)
(* enc are functions of the bytes, so the transform stays deterministic.   *)
(***************************************************************************)
EXTENDS Integers, Sequences, FiniteSets, TLC

\* ---- bounds of the model ------------------------------------------------
MaxImages == 2      \* image rows ever created
MaxCPU == 2         \* runtime.NumCPU() is drawn from 1..MaxCPU
MaxLen == 100       \* len(b) of a payload handed to optimizeBytes alone
MaxDim == 9         \* width and height of an image handed to it alone
MaxBox == 4         \* maxW and maxH handed to it alone
MaxRaw == 4         \* length of the arbitrary buffers handed to the EXIF reader
MaxGrid == 4        \* width and height of the grids handed to transformByOrientation
MaxRows == 3        \* rows of the stores handed to ListImagesToOptimize alone

\* ---- program constants ---------------------------------------------------
imgOptMaxW == 300
imgOptMaxH == 300
initialLimit == 5
limit == 10
sleepError == 15
sleepIdle == 60
sleepPartial == 10

Loops == {1, 2}     \* optimizer loops that may share one store
IDs == 1..(limit + 1)   \* row ids; Spec creates at most MaxImages of them

VARIABLES
  store,      \* id -> image row, or NoImage
  uploaded,   \* id -> the row as created by the upload handler (history)
  nextID,     \* next fresh id (ids are never reused)
  numCPU,     \* runtime.NumCPU()
  pc,         \* loop -> "call" | "batch" | "returned" | "sleeping"
  curLimit,   \* loop -> the limit argument of the current/next batch
  stats,      \* loop -> optStats of the current/last batch
  err,        \* loop -> the last batch returned an error
  sleep,      \* loop -> the delay chosen after the last batch (seconds)
  imgs,       \* loop -> the candidate list of the current batch
  fed,        \* loop -> number of jobs the feeder has handed over
  closed,     \* loop -> the jobs channel is closed
  wk,         \* loop -> worker -> [st: "none" | "idle" | "busy" | "done", im]
  results,    \* loop -> the buffered results channel
  collected,  \* loop -> the collector's index i
  decoded,    \* ids whose bytes were handed to optimizeBytes (history)
  call        \* a function applied to drawn arguments: [fn, in, done, out]

vars == <<store, uploaded, nextID, numCPU, pc, curLimit, stats, err,
          sleep, imgs, fed, closed, wk, results, collected, decoded, call>>

serverVars == <<store, uploaded, nextID, numCPU, pc, curLimit, stats, err,
                sleep, imgs, fed, closed, wk, results, collected, decoded>>

batchVars == <<imgs, fed, closed, wk, results, collected>>

NoImage == [absent |-> TRUE]
NoJob == [id |-> 0]
NoCall == [fn |-> "none"]
NoOut == [pending |-> TRUE]
NilData == [len |-> 0, dec |-> FALSE, w |-> 0, h |-> 0, enc |-> 0]
ZeroStats == [found |-> 0, resized |-> 0, marked |-> 0, empty |-> 0,
              decodeErrors |-> 0, dbErrors |-> 0]

Min(a, b) == IF a <= b THEN a ELSE b
Max(a, b) == IF a >= b THEN a ELSE b

\* ---- the payloads an upload may carry -----------------------------------
\* URL-only image (no bytes), undecodable bytes, a large JPEG whose WebP
\* encoding gains exactly 3 % against its 100 bytes, and a small WebP whose
\* re-encoding is 20 % larger.
EmptyImg == [data |-> NilData, mime |-> ""]
BadImg == [data |-> [len |-> 100, dec |-> FALSE, w |-> 0, h |-> 0, enc |-> 0], mime |-> ""]
GainImg == [data |-> [len |-> 100, dec |-> TRUE, w |-> 600, h |-> 400, enc |-> 97], mime |-> "image/jpeg"]
BloatImg == [data |-> [len |-> 100, dec |-> TRUE, w |-> 40, h |-> 30, enc |-> 120], mime |-> "image/webp"]

Uploads == {EmptyImg, BadImg, GainImg, BloatImg}

\* ---- the transform -------------------------------------------------------
\* round(a/b) for a >= 0, b > 0 (math.Round rounds half away from zero)
RoundDiv(a, b) == (2 * a + b) \div (2 * b)

\* variant: the gain check is missing
GainBelowMin_Never(l0, l1) == FALSE

\* variant: a gain of exactly 3 % is not enough
GainBelowMin_Strict(l0, l1) == 100 * (l0 - l1) <= 3 * l0

\* gain := float64(len(b)-len(newData)) / float64(len(b)); gain < 0.03
GainBelowMin(l0, l1) == 100 * (l0 - l1) < 3 * l0

\* variant: the `scale >= 1.0` branch is missing
NoResize_Never(w, h, maxW, maxH) == FALSE

\* scale := min(maxW/w, maxH/h); scale >= 1.0
NoResize(w, h, maxW, maxH) == maxW >= w /\ maxH >= h

\* variant: without math.Max(1, .)
ScaledDims_NoFloor(w, h, maxW, maxH) ==
  IF maxW * h <= maxH * w
    THEN [w |-> RoundDiv(w * maxW, w), h |-> RoundDiv(h * maxW, w)]
    ELSE [w |-> RoundDiv(w * maxH, h), h |-> RoundDiv(h * maxH, h)]

\* newW, newH := max(1, round(w*scale)), max(1, round(h*scale))
ScaledDims(w, h, maxW, maxH) ==
  IF maxW * h <= maxH * w
    THEN [w |-> Max(1, RoundDiv(w * maxW, w)), h |-> Max(1, RoundDiv(h * maxW, w))]
    ELSE [w |-> Max(1, RoundDiv(w * maxH, h)), h |-> Max(1, RoundDiv(h * maxH, h))]

\* the image that is encoded: the decoded one, or resizeHighQuality's result
OutDims(w, h, maxW, maxH) ==
  IF NoResize(w, h, maxW, maxH) THEN [w |-> w, h |-> h, resized |-> FALSE]
  ELSE [w |-> ScaledDims(w, h, maxW, maxH).w,
        h |-> ScaledDims(w, h, maxW, maxH).h, resized |-> TRUE]

\* the bytes webp.Encode returns for payload b (after the resize, if any)
encodeWebP(b, maxW, maxH) ==
  LET d == IF NoResize(b.w, b.h, maxW, maxH) THEN [w |-> b.w, h |-> b.h]
           ELSE ScaledDims(b.w, b.h, maxW, maxH)
  IN [len |-> b.enc, dec |-> TRUE, w |-> d.w, h |-> d.h, enc |-> b.enc]

optimizeBytes(b, mime, maxW, maxH) ==
  IF ~b.dec \/ b.w <= 0 \/ b.h <= 0
    THEN [data |-> NilData, same |-> FALSE, mime |-> "", err |-> TRUE]
  ELSE LET newData == encodeWebP(b, maxW, maxH) IN
    IF b.len > 0 /\ GainBelowMin(b.len, newData.len)
      THEN [data |-> b, same |-> TRUE, mime |-> mime, err |-> FALSE]
      ELSE [data |-> newData, same |-> FALSE, mime |-> "image/webp", err |-> FALSE]

\* ---- the store -----------------------------------------------------------
Live(st) == {i \in IDs : st[i] # NoImage}

\* variant: the WHERE clause is missing
Eligible_All(row) == TRUE

\* WHERE optimized = false OR optimized IS NULL
Eligible(row) == ~row.optimized

\* variant: ORDER BY created_at DESC
OrderByCreatedAt_Newest(st, S) ==
  [k \in 1..Cardinality(S) |->
     CHOOSE i \in S :
       Cardinality({j \in S : st[j].createdAt > st[i].createdAt}) = k - 1]

\* the rows of S, oldest first (no two rows share a created_at)
OrderByCreatedAt(st, S) ==
  [k \in 1..Cardinality(S) |->
     CHOOSE i \in S :
       Cardinality({j \in S : st[j].createdAt < st[i].createdAt}) = k - 1]

\* ... ORDER BY created_at LIMIT n; each element is the row as read
ListImagesToOptimize(st, n) ==
  LET ord == OrderByCreatedAt(st, {i \in Live(st) : Eligible(st[i])})
  IN [k \in 1..Min(n, Len(ord)) |->
        [id |-> ord[k], data |-> st[ord[k]].data, mime |-> st[ord[k]].mime]]

\* UPDATE images SET ... WHERE id = ?  (no row: nothing changes, no error)
MarkImageOptimizedEmpty(st, id) ==
  IF st[id] = NoImage THEN st
  ELSE [st EXCEPT ![id].optimized = TRUE]

\* variant: only updated_at is written
MarkImageOptimizedNoChange_NoFlag(st, id) == st

MarkImageOptimizedNoChange(st, id) ==
  IF st[id] = NoImage THEN st
  ELSE [st EXCEPT ![id].optimized = TRUE]

\* variant: the row is saved whole (an upsert), not updated
UpdateImageOptimizedData_Upsert(st, id, data, mime) ==
  IF st[id] = NoImage
    THEN [st EXCEPT ![id] = [data |-> data, mime |-> mime, optimized |-> TRUE,
                             createdAt |-> id]]
  ELSE [st EXCEPT ![id].data = data, ![id].mime = mime, ![id].optimized = TRUE]

\* variant: the bytes are written alone, mime and flag in a later update
UpdateImageOptimizedData_DataFirst(st, id, data, mime) ==
  IF st[id] = NoImage THEN st
  ELSE [st EXCEPT ![id].data = data]

\* variant: the optimized column is left out of the update
UpdateImageOptimizedData_NoFlag(st, id, data, mime) ==
  IF st[id] = NoImage THEN st
  ELSE [st EXCEPT ![id].data = data, ![id].mime = mime]

UpdateImageOptimizedData(st, id, data, mime) ==
  IF st[id] = NoImage THEN st
  ELSE [st EXCEPT ![id].data = data, ![id].mime = mime, ![id].optimized = TRUE]

\* ---- construction --------------------------------------------------------
Init ==
  /\ store = [i \in IDs |-> NoImage]
  /\ uploaded = [i \in IDs |-> NoImage]
  /\ nextID = 1
  /\ numCPU \in 1..MaxCPU
  /\ pc = [l \in Loops |-> "call"]
  /\ curLimit = [l \in Loops |-> initialLimit]
  /\ stats = [l \in Loops |-> ZeroStats]
  /\ err = [l \in Loops |-> FALSE]
  /\ sleep = [l \in Loops |-> 0]
  /\ imgs = [l \in Loops |-> <<>>]
  /\ fed = [l \in Loops |-> 0]
  /\ closed = [l \in Loops |-> FALSE]
  /\ wk = [l \in Loops |-> [w \in 1..MaxCPU |-> [st |-> "none", im |-> NoJob]]]
  /\ results = [l \in Loops |-> <<>>]
  /\ collected = [l \in Loops |-> 0]
  /\ decoded = {}
  /\ call = NoCall

\* ---- the surrounding handlers -------------------------------------------
\* addCatImage / addCatImageByURL: a new row, optimized = false (the default)
addCatImage(u) ==
  /\ nextID <= MaxImages
  /\ store' = [store EXCEPT ![nextID] =
       [data |-> u.data, mime |-> u.mime, optimized |-> FALSE, createdAt |-> nextID]]
  /\ uploaded' = [uploaded EXCEPT ![nextID] = u]
  /\ nextID' = nextID + 1
  /\ UNCHANGED <<call, decoded, numCPU, pc, curLimit, stats, err, sleep, batchVars>>

\* deleteCatImage / deleteImage / PruneOldCatImages: the row is removed
deleteCatImage(id) ==
  /\ store[id] # NoImage
  /\ store' = [store EXCEPT ![id] = NoImage]
  /\ uploaded' = [uploaded EXCEPT ![id] = NoImage]
  /\ UNCHANGED <<call, decoded, nextID, numCPU, pc, curLimit, stats, err, sleep, batchVars>>

\* ---- optimizeImagesBatch -------------------------------------------------
\* workers := runtime.NumCPU(), capped by len(imgs), at least 1
Workers(n) == Max(1, Min(numCPU, n))

\* the listing fails: return stats, err
ListFails(l) ==
  /\ pc[l] = "call"
  /\ stats' = [stats EXCEPT ![l] = ZeroStats]
  /\ err' = [err EXCEPT ![l] = TRUE]
  /\ pc' = [pc EXCEPT ![l] = "returned"]
  /\ imgs' = [imgs EXCEPT ![l] = <<>>]
  /\ fed' = [fed EXCEPT ![l] = 0]
  /\ closed' = [closed EXCEPT ![l] = FALSE]
  /\ wk' = [wk EXCEPT ![l] = [w \in 1..MaxCPU |-> [st |-> "none", im |-> NoJob]]]
  /\ results' = [results EXCEPT ![l] = <<>>]
  /\ collected' = [collected EXCEPT ![l] = 0]
  /\ UNCHANGED <<call, decoded, store, uploaded, nextID, numCPU, curLimit, sleep>>

\* the listing succeeds; an empty list returns at once, otherwise the
\* channels are made and the workers and the feeder are started
ListOK(l) ==
  /\ pc[l] = "call"
  /\ LET found == ListImagesToOptimize(store, curLimit[l]) IN
     /\ imgs' = [imgs EXCEPT ![l] = found]
     /\ stats' = [stats EXCEPT ![l] = [ZeroStats EXCEPT !.found = Len(found)]]
     /\ pc' = [pc EXCEPT ![l] = IF Len(found) = 0 THEN "returned" ELSE "batch"]
     /\ wk' = [wk EXCEPT ![l] = [w \in 1..MaxCPU |->
                 IF Len(found) > 0 /\ w <= Workers(Len(found))
                   THEN [st |-> "idle", im |-> NoJob]
                   ELSE [st |-> "none", im |-> NoJob]]]
  /\ err' = [err EXCEPT ![l] = FALSE]
  /\ fed' = [fed EXCEPT ![l] = 0]
  /\ closed' = [closed EXCEPT ![l] = FALSE]
  /\ results' = [results EXCEPT ![l] = <<>>]
  /\ collected' = [collected EXCEPT ![l] = 0]
  /\ UNCHANGED <<call, decoded, store, uploaded, nextID, numCPU, curLimit, sleep>>

\* variant: every waiting worker takes the job the feeder sends
WorkerRecv_Broadcast(l, w) ==
  /\ wk[l][w].st = "idle"
  /\ \A v \in 1..(w - 1) : wk[l][v].st # "idle"
  /\ fed[l] < Len(imgs[l])
  /\ fed' = [fed EXCEPT ![l] = fed[l] + 1]
  /\ closed' = [closed EXCEPT ![l] = (fed[l] + 1 = Len(imgs[l]))]
  /\ wk' = [wk EXCEPT ![l] = [v \in 1..MaxCPU |->
               IF wk[l][v].st = "idle" THEN [st |-> "busy", im |-> imgs[l][fed[l] + 1]]
               ELSE wk[l][v]]]
  /\ UNCHANGED <<call, decoded, store, uploaded, nextID, numCPU, pc, curLimit, stats,
                 err, sleep, imgs, results, collected>>

\* variant: the feeder never closes jobs
WorkerRecv_NoClose(l, w) ==
  /\ wk[l][w].st = "idle"
  /\ \A v \in 1..(w - 1) : wk[l][v].st # "idle"
  /\ fed[l] < Len(imgs[l])
  /\ fed' = [fed EXCEPT ![l] = fed[l] + 1]
  /\ wk' = [wk EXCEPT ![l][w] = [st |-> "busy", im |-> imgs[l][fed[l] + 1]]]
  /\ UNCHANGED <<call, decoded, store, uploaded, nextID, numCPU, pc, curLimit, stats,
                 err, sleep, imgs, closed, results, collected>>

\* jobs <- im meets `for im := range jobs` of an idle worker (unbuffered);
\* the workers are interchangeable, so the first idle one takes the job.
\* After its last send the feeder does nothing but close(jobs), and a worker
\* that finds jobs closed does nothing but return: both are taken with the
\* step that precedes them.
WorkerRecv(l, w) ==
  /\ wk[l][w].st = "idle"
  /\ \A v \in 1..(w - 1) : wk[l][v].st # "idle"
  /\ fed[l] < Len(imgs[l])
  /\ fed' = [fed EXCEPT ![l] = fed[l] + 1]
  /\ closed' = [closed EXCEPT ![l] = (fed[l] + 1 = Len(imgs[l]))]
  /\ wk' = [wk EXCEPT ![l] = [v \in 1..MaxCPU |->
               IF v = w THEN [st |-> "busy", im |-> imgs[l][fed[l] + 1]]
               ELSE IF fed[l] + 1 = Len(imgs[l]) /\ wk[l][v].st = "idle"
                 THEN [st |-> "done", im |-> NoJob]
               ELSE wk[l][v]]]
  /\ UNCHANGED <<call, decoded, store, uploaded, nextID, numCPU, pc, curLimit, stats,
                 err, sleep, imgs, results, collected>>

\* variant: the empty-data guard of the worker is missing
CallsOptimizeBytes_Always(im) == TRUE

\* `if len(im.Data) == 0 { ...; continue }` guards the transform
CallsOptimizeBytes(im) == im.data.len # 0

\* the result a worker sends for job im
WorkerResult(im) ==
  IF ~CallsOptimizeBytes(im)
    THEN [im |-> im, data |-> NilData, same |-> TRUE, mime |-> im.mime, err |-> FALSE]
    ELSE LET o == optimizeBytes(im.data, im.mime, imgOptMaxW, imgOptMaxH)
         IN IF o.err
              THEN [im |-> im, data |-> NilData, same |-> FALSE, mime |-> "", err |-> TRUE]
              ELSE [im |-> im, data |-> o.data, same |-> o.same, mime |-> o.mime, err |-> FALSE]

\* the worker handles its job and sends the result (the channel has room
\* for every result of the batch, so the send never blocks), then waits for
\* the next job, or returns if jobs is closed
WorkerProcess(l, w) ==
  /\ wk[l][w].st = "busy"
  /\ results' = [results EXCEPT ![l] = Append(results[l], WorkerResult(wk[l][w].im))]
  /\ wk' = [wk EXCEPT ![l][w] = [st |-> IF closed[l] THEN "done" ELSE "idle", im |-> NoJob]]
  /\ decoded' = IF CallsOptimizeBytes(wk[l][w].im) THEN decoded \cup {wk[l][w].im.id}
                ELSE decoded
  /\ UNCHANGED <<call, store, uploaded, nextID, numCPU, pc, curLimit, stats,
                 err, sleep, imgs, fed, closed, collected>>

\* variant: the `if r.err != nil` branch is missing
Outcome_NoErrCheck(r) ==
  IF r.im.data.len = 0 THEN "empty"
  ELSE IF r.same THEN "same"
  ELSE "update"

\* which branch of the collector loop takes result r
Outcome(r) ==
  IF r.im.data.len = 0 THEN "empty"
  ELSE IF r.err THEN "error"
  ELSE IF r.same THEN "same"
  ELSE "update"

\* the store call the collector makes for result r ("none": no call)
WriteOp(r) ==
  CASE Outcome(r) = "empty" -> "MarkImageOptimizedEmpty"
    [] Outcome(r) = "error" -> "none"
    [] Outcome(r) = "same" -> "MarkImageOptimizedNoChange"
    [] Outcome(r) = "update" -> "UpdateImageOptimizedData"

\* the store after that call succeeded
WriteStore(st, r) ==
  CASE Outcome(r) = "empty" -> MarkImageOptimizedEmpty(st, r.im.id)
    [] Outcome(r) = "error" -> st
    [] Outcome(r) = "same" -> MarkImageOptimizedNoChange(st, r.im.id)
    [] Outcome(r) = "update" -> UpdateImageOptimizedData(st, r.im.id, r.data, r.mime)

\* variant: a marked row without bytes is counted in empty alone
Count_EmptyAlone(s, r, ok) ==
  CASE Outcome(r) = "error" -> [s EXCEPT !.decodeErrors = @ + 1]
    [] Outcome(r) # "error" /\ ~ok -> [s EXCEPT !.dbErrors = @ + 1]
    [] Outcome(r) = "empty" /\ ok -> [s EXCEPT !.empty = @ + 1]
    [] Outcome(r) = "same" /\ ok -> [s EXCEPT !.marked = @ + 1]
    [] Outcome(r) = "update" /\ ok -> [s EXCEPT !.resized = @ + 1]

\* the counters after result r, ok = the store call returned no error
Count(s, r, ok) ==
  CASE Outcome(r) = "error" -> [s EXCEPT !.decodeErrors = @ + 1]
    [] Outcome(r) # "error" /\ ~ok -> [s EXCEPT !.dbErrors = @ + 1]
    [] Outcome(r) = "empty" /\ ok -> [s EXCEPT !.empty = @ + 1, !.marked = @ + 1]
    [] Outcome(r) = "same" /\ ok -> [s EXCEPT !.marked = @ + 1]
    [] Outcome(r) = "update" /\ ok -> [s EXCEPT !.resized = @ + 1]

\* variant: the collector loop stops one result short
AfterCollect_OffByOne(l, ok) ==
  IF collected[l] + 1 >= Len(imgs[l]) - 1 THEN "returned" ELSE "batch"

\* variant: the first store error ends the batch
AfterCollect_Abort(l, ok) ==
  IF ~ok \/ collected[l] + 1 = Len(imgs[l]) THEN "returned" ELSE "batch"

\* where the collector is after an iteration: a store error is only
\* counted (`continue`), the loop ends with the last result
AfterCollect(l, ok) ==
  IF collected[l] + 1 = Len(imgs[l]) THEN "returned" ELSE "batch"

\* variant: the write goes to the row at the collector's index, not to the
\* row the result belongs to
Collect_ByIndex(l, ok) ==
  /\ pc[l] = "batch"
  /\ collected[l] < Len(imgs[l])
  /\ results[l] # <<>>
  /\ LET r == Head(results[l])
         at == [r EXCEPT !.im.id = imgs[l][collected[l] + 1].id] IN
     /\ ~ok => WriteOp(r) # "none"
     /\ store' = IF ok THEN WriteStore(store, at) ELSE store
     /\ stats' = [stats EXCEPT ![l] = Count(stats[l], r, ok)]
  /\ results' = [results EXCEPT ![l] = Tail(results[l])]
  /\ collected' = [collected EXCEPT ![l] = collected[l] + 1]
  /\ pc' = [pc EXCEPT ![l] = AfterCollect(l, ok)]
  /\ UNCHANGED <<call, decoded, uploaded, nextID, numCPU, curLimit, err, sleep, imgs, fed, closed, wk>>

\* variant: the batch returns the error of a failed store write
Collect_ReturnsWriteError(l, ok) ==
  /\ pc[l] = "batch"
  /\ collected[l] < Len(imgs[l])
  /\ results[l] # <<>>
  /\ LET r == Head(results[l]) IN
     /\ ~ok => WriteOp(r) # "none"
     /\ store' = IF ok THEN WriteStore(store, r) ELSE store
     /\ stats' = [stats EXCEPT ![l] = Count(stats[l], r, ok)]
  /\ results' = [results EXCEPT ![l] = Tail(results[l])]
  /\ collected' = [collected EXCEPT ![l] = collected[l] + 1]
  /\ pc' = [pc EXCEPT ![l] = AfterCollect(l, ok)]
  /\ err' = [err EXCEPT ![l] = err[l] \/ ~ok]
  /\ UNCHANGED <<call, decoded, uploaded, nextID, numCPU, curLimit, sleep, imgs, fed, closed, wk>>

\* one iteration of `for i := 0; i < len(imgs); i++ { r := <-results ... }`;
\* the last iteration returns stats, nil
Collect(l, ok) ==
  /\ pc[l] = "batch"
  /\ collected[l] < Len(imgs[l])
  /\ results[l] # <<>>
  /\ LET r == Head(results[l]) IN
     /\ ~ok => WriteOp(r) # "none"
     /\ store' = IF ok THEN WriteStore(store, r) ELSE store
     /\ stats' = [stats EXCEPT ![l] = Count(stats[l], r, ok)]
  /\ results' = [results EXCEPT ![l] = Tail(results[l])]
  /\ collected' = [collected EXCEPT ![l] = collected[l] + 1]
  /\ pc' = [pc EXCEPT ![l] = AfterCollect(l, ok)]
  /\ UNCHANGED <<call, decoded, uploaded, nextID, numCPU, curLimit, err, sleep, imgs, fed, closed, wk>>

\* ---- imageOptimizerLoop --------------------------------------------------
\* variant: the found count is looked at before the error
NextSleep_FoundFirst(e, found) ==
  IF found = 0 THEN sleepIdle
  ELSE IF e THEN sleepError
  ELSE IF found < limit THEN sleepPartial
  ELSE 0

\* variant: a batch that reaches the limit still counts as partial
NextSleep_PartialAtLimit(e, found) ==
  IF e THEN sleepError
  ELSE IF found = 0 THEN sleepIdle
  ELSE IF found <= limit THEN sleepPartial
  ELSE 0

\* variant: no backoff after an error
NextSleep_NoBackoff(e, found) ==
  IF e THEN 0
  ELSE IF found = 0 THEN sleepIdle
  ELSE IF found < limit THEN sleepPartial
  ELSE 0

\* the delay chosen from the previous batch's outcome
NextSleep(e, found) ==
  IF e THEN sleepError
  ELSE IF found = 0 THEN sleepIdle
  ELSE IF found < limit THEN sleepPartial
  ELSE 0

\* variant: the delay is chosen but time.Sleep is not called
ChooseSleep_NoSleep(l) ==
  /\ pc[l] = "returned"
  /\ sleep' = [sleep EXCEPT ![l] = NextSleep(err[l], stats[l].found)]
  /\ pc' = [pc EXCEPT ![l] = "call"]
  /\ curLimit' = [curLimit EXCEPT ![l] = limit]
  /\ UNCHANGED <<call, decoded, store, uploaded, nextID, numCPU, stats, err, batchVars>>

\* lines 43-55: the delay is chosen and, if positive, slept
ChooseSleep(l) ==
  /\ pc[l] = "returned"
  /\ sleep' = [sleep EXCEPT ![l] = NextSleep(err[l], stats[l].found)]
  /\ pc' = [pc EXCEPT ![l] = IF NextSleep(err[l], stats[l].found) > 0 THEN "sleeping" ELSE "call"]
  /\ curLimit' = [curLimit EXCEPT ![l] = limit]
  /\ UNCHANGED <<call, decoded, store, uploaded, nextID, numCPU, stats, err, batchVars>>

\* variant: the loop ends when a batch returned an error
Wake_UnlessError(l) ==
  /\ pc[l] = "sleeping"
  /\ ~err[l]
  /\ pc' = [pc EXCEPT ![l] = "call"]
  /\ sleep' = [sleep EXCEPT ![l] = 0]
  /\ UNCHANGED <<call, decoded, store, uploaded, nextID, numCPU, curLimit, stats, err,
                 batchVars>>

\* time.Sleep(sleep) returns
Wake(l) ==
  /\ pc[l] = "sleeping"
  /\ pc' = [pc EXCEPT ![l] = "call"]
  /\ sleep' = [sleep EXCEPT ![l] = 0]
  /\ UNCHANGED <<call, decoded, store, uploaded, nextID, numCPU, curLimit, stats, err,
                 batchVars>>

\* every step of optimizer loop l and of the goroutines of its batch
LoopStep(l) ==
  \/ ListFails(l)
  \/ ListOK(l)
  \/ \E w \in 1..MaxCPU : WorkerRecv(l, w)
  \/ \E w \in 1..MaxCPU : WorkerProcess(l, w)
  \/ \E ok \in BOOLEAN : Collect(l, ok)
  \/ ChooseSleep(l)
  \/ Wake(l)

Environment ==
  \/ \E u \in Uploads : addCatImage(u)
  \/ \E id \in IDs : deleteCatImage(id)

\* one server: one optimizer loop (NewServer starts exactly one)
Next ==
  \/ LoopStep(1)
  \/ Environment

Spec == Init /\ [][Next]_vars

\* two servers on one database: two optimizer loops share the store
NextTwo ==
  \/ \E l \in Loops : LoopStep(l)
  \/ Environment

SpecTwo == Init /\ [][NextTwo]_vars

\* a server started on a database that already holds n rows waiting for
\* the optimizer (uploaded before the start, in this order)
RECURSIVE Pending(_)
Pending(n) ==
  IF n = 0 THEN {[i \in IDs |-> NoImage]}
  ELSE {[st EXCEPT ![n] = [data |-> u.data, mime |-> u.mime,
                           optimized |-> FALSE, createdAt |-> n]] :
          st \in Pending(n - 1), u \in Uploads}

InitPending ==
  /\ \E n \in 0..MaxImages :
       /\ store \in Pending(n)
       /\ nextID = n + 1
  /\ uploaded = [i \in IDs |-> IF store[i] = NoImage THEN NoImage
                               ELSE [data |-> store[i].data, mime |-> store[i].mime]]
  /\ numCPU \in 1..MaxCPU
  /\ pc = [l \in Loops |-> "call"]
  /\ curLimit = [l \in Loops |-> initialLimit]
  /\ stats = [l \in Loops |-> ZeroStats]
  /\ err = [l \in Loops |-> FALSE]
  /\ sleep = [l \in Loops |-> 0]
  /\ imgs = [l \in Loops |-> <<>>]
  /\ fed = [l \in Loops |-> 0]
  /\ closed = [l \in Loops |-> FALSE]
  /\ wk = [l \in Loops |-> [w \in 1..MaxCPU |-> [st |-> "none", im |-> NoJob]]]
  /\ results = [l \in Loops |-> <<>>]
  /\ collected = [l \in Loops |-> 0]
  /\ decoded = {}
  /\ call = NoCall

\* the optimizer loop alone, on the rows that wait for it
NextFair == LoopStep(1)

\* one server whose goroutines keep being scheduled, on a store whose
\* listing does not fail for ever
SpecFair ==
  /\ InitPending
  /\ [][NextFair]_vars
  /\ WF_vars(LoopStep(1))
  /\ SF_vars(ListOK(1))

\* a server started on a database that holds n rows whose bytes do not
\* decode and, created after them, one row u that the optimizer can settle
Backlog(n, u) ==
  [i \in IDs |->
     IF i <= n THEN [data |-> BadImg.data, mime |-> BadImg.mime,
                     optimized |-> FALSE, createdAt |-> i]
     ELSE IF i = n + 1 THEN [data |-> u.data, mime |-> u.mime,
                             optimized |-> FALSE, createdAt |-> i]
     ELSE NoImage]

InitBacklog ==
  /\ \E n \in 0..limit, u \in Uploads \ {BadImg} :
       /\ store = Backlog(n, u)
       /\ nextID = n + 2
  /\ uploaded = [i \in IDs |-> IF store[i] = NoImage THEN NoImage
                               ELSE [data |-> store[i].data, mime |-> store[i].mime]]
  /\ numCPU \in 1..MaxCPU
  /\ pc = [l \in Loops |-> "call"]
  /\ curLimit = [l \in Loops |-> initialLimit]
  /\ stats = [l \in Loops |-> ZeroStats]
  /\ err = [l \in Loops |-> FALSE]
  /\ sleep = [l \in Loops |-> 0]
  /\ imgs = [l \in Loops |-> <<>>]
  /\ fed = [l \in Loops |-> 0]
  /\ closed = [l \in Loops |-> FALSE]
  /\ wk = [l \in Loops |-> [w \in 1..MaxCPU |-> [st |-> "none", im |-> NoJob]]]
  /\ results = [l \in Loops |-> <<>>]
  /\ collected = [l \in Loops |-> 0]
  /\ decoded = {}
  /\ call = NoCall

\* the optimizer loop on a store whose reads and writes all succeed
NextBacklog ==
  \/ ListOK(1)
  \/ \E w \in 1..MaxCPU : WorkerRecv(1, w)
  \/ \E w \in 1..MaxCPU : WorkerProcess(1, w)
  \/ Collect(1, TRUE)
  \/ ChooseSleep(1)
  \/ Wake(1)

\* the loop and its goroutines keep being scheduled
SpecBacklog ==
  /\ InitBacklog
  /\ [][NextBacklog]_vars
  /\ WF_vars(NextBacklog)

\* ---- steps and states the properties speak about ------------------------
\* this step is one iteration of loop l's collector
CollectorStep(l) == collected'[l] = collected[l] + 1

\* the result that iteration receives
Taken(l) == Head(results[l])

\* this step issues a store write of loop l for row id
StoreWrite(l, id) ==
  CollectorStep(l) /\ Taken(l).im.id = id /\ WriteOp(Taken(l)) # "none"

\* the store call of this collector step returned an error
WriteError(l) == stats'[l].dbErrors = stats[l].dbErrors + 1

\* this step is the listing of a batch of loop l
ListStep(l) == pc[l] = "call" /\ pc'[l] # "call"

\* row id exists before and after this step
Stays(id) == store[id] # NoImage /\ store'[id] # NoImage

BatchIDs(l) == {imgs[l][k].id : k \in 1..Len(imgs[l])}

\* row id was marked optimized with its uploaded bytes kept
KeptAsIs(id) ==
  /\ store[id] # NoImage
  /\ store[id].optimized
  /\ store[id].data.len > 0
  /\ store[id].data = uploaded[id].data

\* ---- C1 ------------------------------------------------------------------
\* C1: with one optimizer loop, a row that is optimized before a step of a
\* batch keeps its data and mime in that step, and the step issues no store
\* write for it, whatever store calls fail.
C1_Idempotence ==
  [][\A id \in IDs :
       (store[id] # NoImage /\ store[id].optimized) =>
         /\ \A l \in Loops : ~StoreWrite(l, id)
         /\ store'[id] # NoImage =>
              /\ store'[id].data = store[id].data
              /\ store'[id].mime = store[id].mime]_vars

\* a batch that wrote to the store has returned while a row optimized by an
\* earlier batch, not in its candidate list, sits in the store
C1_Witness ==
  /\ pc[1] = "returned"
  /\ stats[1].resized + stats[1].marked > 0
  /\ \E id \in IDs : /\ store[id] # NoImage
                     /\ store[id].optimized
                     /\ id \notin BatchIDs(1)

\* ---- C2 ------------------------------------------------------------------
\* C2: when the transform reports same = true the collector calls
\* MarkImageOptimizedNoChange only; if the call succeeds the row is optimized
\* with the data and mime the batch read, the batch counts it in marked (not
\* resized, not empty), and no later listing returns a row kept this way.
C2_NoGain ==
  [][\A l \in Loops :
       /\ (CollectorStep(l) /\ Outcome(Taken(l)) = "same") =>
            LET r == Taken(l) IN
            /\ WriteOp(r) = "MarkImageOptimizedNoChange"
            /\ (~WriteError(l)) =>
                 /\ stats'[l] = [stats[l] EXCEPT !.marked = @ + 1]
                 /\ Stays(r.im.id) =>
                      /\ store'[r.im.id].optimized
                      /\ store'[r.im.id].data = r.im.data
                      /\ store'[r.im.id].mime = r.im.mime
                      /\ store'[r.im.id].data = store[r.im.id].data
                      /\ store'[r.im.id].mime = store[r.im.id].mime
       /\ ListStep(l) =>
            \A k \in 1..Len(imgs'[l]) : ~KeptAsIs(imgs'[l][k].id)]_vars

\* a batch has returned after marking a row whose bytes it kept
C2_Witness ==
  /\ pc[1] = "returned"
  /\ stats[1].marked > 0
  /\ stats[1].empty = 0
  /\ \E id \in BatchIDs(1) : KeptAsIs(id)

\* ---- C3 ------------------------------------------------------------------
\* C3: no row's data is ever longer than at upload; a store write that
\* replaces a row's data shrinks it by at least 3 % of the old length and
\* sets mime to "image/webp" in the same write; a step that is no
\* UpdateImageOptimizedData write for the row leaves its data unchanged.
C3_NeverBloats ==
  /\ [](\A id \in IDs :
          store[id] # NoImage => store[id].data.len <= uploaded[id].data.len)
  /\ [][\A id \in IDs :
         Stays(id) =>
           LET upd == \E l \in Loops :
                        /\ StoreWrite(l, id)
                        /\ WriteOp(Taken(l)) = "UpdateImageOptimizedData"
                        /\ ~WriteError(l)
           IN /\ upd =>
                   /\ 100 * (store[id].data.len - store'[id].data.len)
                        >= 3 * store[id].data.len
                   /\ store'[id].mime = "image/webp"
              /\ (~upd) => store'[id].data = store[id].data]_vars

\* a row holds rewritten bytes
C3_Witness ==
  \E id \in IDs : /\ store[id] # NoImage
                  /\ store[id].data # uploaded[id].data
                  /\ store[id].mime = "image/webp"

\* ---- C4 ------------------------------------------------------------------
\* C4: the bytes of a row with empty data are never handed to optimizeBytes;
\* the collector persists such a row with MarkImageOptimizedEmpty only, and
\* when that call succeeds the row is optimized with data and mime unchanged
\* and the batch counts it in empty (and marked).
C4_EmptyShortcut ==
  /\ [](\A id \in decoded :
          store[id] # NoImage => uploaded[id].data.len > 0)
  /\ [][\A l \in Loops :
         (CollectorStep(l) /\ Taken(l).im.data.len = 0) =>
           LET r == Taken(l) IN
           /\ WriteOp(r) = "MarkImageOptimizedEmpty"
           /\ r.im.id \notin decoded'
           /\ (~WriteError(l)) =>
                /\ stats'[l] = [stats[l] EXCEPT !.empty = @ + 1, !.marked = @ + 1]
                /\ Stays(r.im.id) =>
                     /\ store'[r.im.id].optimized
                     /\ store'[r.im.id].data = store[r.im.id].data
                     /\ store'[r.im.id].mime = store[r.im.id].mime]_vars

\* a batch has returned after marking a row without bytes
C4_Witness ==
  /\ pc[1] = "returned"
  /\ stats[1].empty > 0
  /\ \E id \in BatchIDs(1) : /\ store[id] # NoImage
                             /\ store[id].data.len = 0
                             /\ store[id].optimized
                             /\ id \notin decoded

\* ---- C5 ------------------------------------------------------------------
\* C5: when the transform fails for a row with bytes, the collector makes no
\* store call for it (the store is unchanged), adds one to decodeErrors only,
\* goes on with the batch, and the row stays eligible: a row whose bytes do
\* not decode is never marked optimized.
C5_DecodeFailure ==
  /\ [](\A id \in IDs :
          (store[id] # NoImage /\ store[id].data.len > 0 /\ ~store[id].data.dec)
            => Eligible(store[id]))
  /\ [][\A l \in Loops :
         (CollectorStep(l) /\ Taken(l).im.data.len > 0 /\ Taken(l).err) =>
           /\ WriteOp(Taken(l)) = "none"
           /\ store' = store
           /\ stats'[l] = [stats[l] EXCEPT !.decodeErrors = @ + 1]
           /\ pc'[l] = IF collected'[l] = Len(imgs[l]) THEN "returned" ELSE "batch"
           /\ err'[l] = FALSE]_vars

\* a batch has returned with a decode error counted and the row untouched,
\* next to a sibling row that was marked
C5_Witness ==
  /\ pc[1] = "returned"
  /\ stats[1].decodeErrors > 0
  /\ stats[1].resized + stats[1].marked > 0
  /\ \E id \in BatchIDs(1) : /\ store[id] # NoImage
                             /\ store[id] = [data |-> BadImg.data, mime |-> BadImg.mime,
                                             optimized |-> FALSE, createdAt |-> id]

\* ---- C6 ------------------------------------------------------------------
\* the write of row id failed in the batch that has just returned: the row is
\* in the batch, its result was not a decode error, and it is not optimized
WriteFailedFor(id) ==
  /\ pc[1] = "returned"
  /\ ~err[1]
  /\ id \in BatchIDs(1)
  /\ store[id] # NoImage
  /\ ~store[id].optimized
  /\ (store[id].data.len = 0 \/ store[id].data.dec)

\* row id is in the store, not optimized, its bytes are empty or decode, and
\* it is not in the candidate list of a batch in progress
Waiting(id) ==
  /\ store[id] # NoImage
  /\ ~store[id].optimized
  /\ (store[id].data.len = 0 \/ store[id].data.dec)
  /\ ~(pc[1] = "batch" /\ id \in BatchIDs(1))

\* C6: a failed store write changes nothing in the store and is counted in
\* dbErrors only; the batch goes on: it returns (without error) only when
\* every result was handled, and after a failure the writes for the other
\* rows still take effect; the failed row stays eligible and is in the
\* candidate list of a later batch: at any time, a row whose write can be
\* attempted and that is not optimized is later optimized or in the candidate
\* list of a batch in progress.
C6_WriteErrorIsolation ==
  /\ [][\A l \in Loops :
         /\ (CollectorStep(l) /\ WriteError(l)) =>
              /\ store' = store
              /\ stats'[l] = [stats[l] EXCEPT !.dbErrors = @ + 1]
              /\ pc'[l] = IF collected'[l] = Len(imgs[l]) THEN "returned" ELSE "batch"
              /\ err'[l] = FALSE
         /\ (CollectorStep(l) /\ stats[l].dbErrors > 0 /\ ~WriteError(l)
               /\ WriteOp(Taken(l)) # "none" /\ Stays(Taken(l).im.id)) =>
              LET r == Taken(l) IN
              /\ store'[r.im.id].optimized
              /\ Outcome(r) = "update" =>
                   /\ store'[r.im.id].data = r.data
                   /\ store'[r.im.id].mime = r.mime]_vars
  /\ [](\A l \in Loops :
          (pc[l] = "returned" /\ ~err[l]) => collected[l] = Len(imgs[l]))
  /\ [](\A id \in IDs : WriteFailedFor(id) => stats[1].dbErrors > 0)
  /\ \A id \in 1..MaxImages : []<>(~Waiting(id))

\* a batch has returned in which the write for one row failed and the write
\* for a sibling row took effect
C6_Witness ==
  /\ stats[1].dbErrors > 0
  /\ \E id \in IDs : WriteFailedFor(id)
  /\ \E id \in BatchIDs(1) : store[id] # NoImage /\ store[id].optimized

\* ---- C7 ------------------------------------------------------------------
\* this step is a listing of loop l that fails
ListError(l) == ListStep(l) /\ err'[l]

\* C7: when the listing fails the batch returns the error with all counters
\* zero, no worker started and the store untouched; the loop then sleeps 15 s
\* before the next batch.
C7_ReadError ==
  /\ [][\A l \in Loops :
         /\ ListError(l) =>
              /\ stats'[l] = ZeroStats
              /\ pc'[l] = "returned"
              /\ \A w \in 1..MaxCPU : wk'[l][w].st = "none"
              /\ results'[l] = <<>> /\ collected'[l] = 0 /\ imgs'[l] = <<>>
              /\ store' = store
         /\ (pc[l] = "returned" /\ err[l]) =>
              (pc'[l] # pc[l] => (pc'[l] = "sleeping" /\ sleep'[l] = sleepError))]_vars
  /\ [](\A l \in Loops : (pc[l] = "sleeping" /\ err[l]) => sleep[l] = sleepError)

\* the loop sleeps the error backoff although rows are waiting
C7_Witness ==
  /\ pc[1] = "sleeping"
  /\ err[1]
  /\ sleep[1] = sleepError
  /\ stats[1] = ZeroStats
  /\ \E id \in IDs : store[id] # NoImage /\ Eligible(store[id])

\* ---- C8 ------------------------------------------------------------------
\* C8: with one optimizer loop, a row's optimized flag never goes back to
\* false, and its data or mime change only in a store write of a step in
\* which optimized goes from false to true (hence at most once).
C8_Lifecycle ==
  [][\A id \in IDs :
       Stays(id) =>
         /\ store[id].optimized => store'[id].optimized
         /\ (store'[id].data # store[id].data \/ store'[id].mime # store[id].mime) =>
              /\ ~store[id].optimized
              /\ store'[id].optimized
              /\ \E l \in Loops : StoreWrite(l, id)
         /\ store'[id].createdAt = store[id].createdAt]_vars

\* a row has made its one transition with its bytes rewritten
C8_Witness ==
  \E id \in IDs : /\ store[id] # NoImage
                  /\ store[id].optimized
                  /\ store[id].data # uploaded[id].data
                  /\ pc[1] = "returned"

\* ---- C9 ------------------------------------------------------------------
\* C9: with two optimizer loops on one store, no loop's
\* UpdateImageOptimizedData write succeeds for a row that is already
\* optimized: the data and mime of a row are written at most once.
C9_DuplicateSelection ==
  [][\A l \in Loops, id \in IDs :
       (/\ StoreWrite(l, id)
        /\ WriteOp(Taken(l)) = "UpdateImageOptimizedData"
        /\ ~WriteError(l)
        /\ store[id] # NoImage) => ~store[id].optimized]_vars

\* ---- C10 -----------------------------------------------------------------
\* the rows that the optimizer could settle and has not settled
Unsettled ==
  {id \in IDs : /\ store[id] # NoImage
                /\ (store[id].data.len = 0 \/ store[id].data.dec)
                /\ ~store[id].optimized}

\* C10: when the loop keeps running and every store call succeeds, each row
\* that is empty or whose bytes decode is eventually optimized, however many
\* older rows have bytes that never decode (no row is added or deleted here,
\* so this is: at some time no such row is left unoptimized).
C10_EventualCoverage == <>(Unsettled = {})


\* ==== functions applied to drawn arguments ================================
\* the server before it has started: no row, no batch
ServerIdle ==
  /\ store = [i \in IDs |-> NoImage]
  /\ uploaded = [i \in IDs |-> NoImage]
  /\ nextID = 1
  /\ numCPU = 1
  /\ pc = [l \in Loops |-> "call"]
  /\ curLimit = [l \in Loops |-> initialLimit]
  /\ stats = [l \in Loops |-> ZeroStats]
  /\ err = [l \in Loops |-> FALSE]
  /\ sleep = [l \in Loops |-> 0]
  /\ imgs = [l \in Loops |-> <<>>]
  /\ fed = [l \in Loops |-> 0]
  /\ closed = [l \in Loops |-> FALSE]
  /\ wk = [l \in Loops |-> [w \in 1..MaxCPU |-> [st |-> "none", im |-> NoJob]]]
  /\ results = [l \in Loops |-> <<>>]
  /\ collected = [l \in Loops |-> 0]
  /\ decoded = {}

\* the call of function f on argument a, not yet made
Pend(f, a) == [fn |-> f, in |-> a, done |-> FALSE, out |-> NoOut]

\* the call has returned o
Return(o) ==
  /\ ~call.done
  /\ call' = [call EXCEPT !.done = TRUE, !.out = o]
  /\ UNCHANGED serverVars

\* ---- the scheduler's choice of the delay --------------------------------
\* outcomes of a batch: err != nil or not, stats.found
Outcomes == [err : BOOLEAN, found : 0..(limit + 1)]

\* lines 43-55 of the loop: the delay, and whether time.Sleep is called
Call_NextSleep ==
  /\ call.fn = "NextSleep"
  /\ LET d == NextSleep(call.in.err, call.in.found)
     IN Return([sleep |-> d, sleeps |-> d > 0])


\* ---- optimizeBytes on payloads of every length and size ------------------
\* payloads that decode, of every length up to MaxLen, with every candidate
\* length up to two bytes more, small enough or too large for the box
LenArgs ==
  {[b |-> [len |-> l0, dec |-> TRUE, w |-> d.w, h |-> d.h, enc |-> l1],
    mime |-> m, maxW |-> imgOptMaxW, maxH |-> imgOptMaxH] :
     l0 \in 1..MaxLen, l1 \in 0..(MaxLen + 2),
     d \in {[w |-> 40, h |-> 30], [w |-> 600, h |-> 400]},
     m \in {"image/jpeg", "image/webp"}}

\* images of every size up to MaxDim in every box up to MaxBox, and bytes
\* that do not decode
DimArgs ==
  {[b |-> [len |-> MaxLen, dec |-> TRUE, w |-> w, h |-> h, enc |-> l1],
    mime |-> "image/png", maxW |-> mw, maxH |-> mh] :
     w \in 1..MaxDim, h \in 1..MaxDim, mw \in 1..MaxBox, mh \in 1..MaxBox,
     l1 \in {MaxLen \div 2, MaxLen}}
  \cup {[b |-> BadImg.data, mime |-> BadImg.mime, maxW |-> mw, maxH |-> mh] :
          mw \in 1..MaxBox, mh \in 1..MaxBox}

Call_optimizeBytes ==
  /\ call.fn = "optimizeBytes"
  /\ LET a == call.in
     IN Return([res |-> optimizeBytes(a.b, a.mime, a.maxW, a.maxH),
                dims |-> OutDims(a.b.w, a.b.h, a.maxW, a.maxH)])


\* ---- the EXIF orientation reader ----------------------------------------
\* A buffer is a sequence of bytes 0..255; Go's b[i] is b[i + 1] here.
\* Go's int has 32 or 64 bits, with the platform the server is built for;
\* signed addition wraps. Values of 2^31 and more (64-bit only) are held as
\* MaxInt32: they are only ever compared with lengths below 2^17.
MaxInt32 == 2147483647
MinInt32 == -MaxInt32 - 1
IntBits == {32, 64}

\* a + n for an int a and a small n >= 0
Plus(a, n, bits) ==
  IF a <= MaxInt32 - n THEN a + n
  ELSE IF bits = 32 THEN (a + MinInt32) + (n + MinInt32)
  ELSE MaxInt32

\* int(x) for the uint32 x = hi * 2^16 + lo
IntOfU32(hi, lo, bits) ==
  IF hi < 32768 THEN hi * 65536 + lo
  ELSE IF bits = 32 THEN (hi - 65536) * 65536 + lo
  ELSE MaxInt32

NotFound == [ori |-> 1, ok |-> FALSE, panic |-> FALSE]
Found(v) == [ori |-> v, ok |-> TRUE, panic |-> FALSE]
\* a run-time panic: index or slice bounds out of range
Panic == [ori |-> 0, ok |-> FALSE, panic |-> TRUE]

\* s[lo:hi] is allowed (the capacity is taken to be the length)
SliceOK(s, lo, hi) == 0 <= lo /\ lo <= hi /\ hi <= Len(s)

\* variant: u16 reads little-endian whatever the byte order
TiffU16_LittleEndian(tiff, le, p, bits) ==
  IF Plus(p, 2, bits) > Len(tiff) THEN [oob |-> FALSE, v |-> 0]
  ELSE IF ~SliceOK(tiff, p, Plus(p, 2, bits)) THEN [oob |-> TRUE, v |-> 0]
  ELSE [oob |-> FALSE, v |-> tiff[p + 1] + 256 * tiff[p + 2]]

\* the closures u16 and u32 of parseTIFFOrientation; "oob" is a panic.
\* u32 yields the two 16-bit halves of the value.
TiffU16(tiff, le, p, bits) ==
  IF Plus(p, 2, bits) > Len(tiff) THEN [oob |-> FALSE, v |-> 0]
  ELSE IF ~SliceOK(tiff, p, Plus(p, 2, bits)) THEN [oob |-> TRUE, v |-> 0]
  ELSE [oob |-> FALSE,
        v |-> IF le THEN tiff[p + 1] + 256 * tiff[p + 2]
              ELSE 256 * tiff[p + 1] + tiff[p + 2]]

TiffU32(tiff, le, p, bits) ==
  IF Plus(p, 4, bits) > Len(tiff) THEN [oob |-> FALSE, hi |-> 0, lo |-> 0]
  ELSE IF ~SliceOK(tiff, p, Plus(p, 4, bits)) THEN [oob |-> TRUE, hi |-> 0, lo |-> 0]
  ELSE IF le THEN [oob |-> FALSE, lo |-> tiff[p + 1] + 256 * tiff[p + 2],
                                 hi |-> tiff[p + 3] + 256 * tiff[p + 4]]
  ELSE [oob |-> FALSE, hi |-> 256 * tiff[p + 1] + tiff[p + 2],
                       lo |-> 256 * tiff[p + 3] + tiff[p + 4]]

\* `for i := 0; i < count; i++` of parseTIFFOrientation, at entry i
RECURSIVE IFDEntries(_, _, _, _, _, _)
IFDEntries(tiff, le, pos, i, count, bits) ==
  IF i >= count \/ pos + 12 > Len(tiff) THEN NotFound
  ELSE LET tag == TiffU16(tiff, le, pos, bits)
           typ == TiffU16(tiff, le, pos + 2, bits)
           cnt == TiffU32(tiff, le, pos + 4, bits)
           val == TiffU16(tiff, le, pos + 8, bits)
       IN IF tag.oob \/ typ.oob \/ cnt.oob THEN Panic
          ELSE IF tag.v = 274 /\ typ.v = 3 /\ (cnt.hi > 0 \/ cnt.lo > 0)
            THEN IF val.oob THEN Panic
                 ELSE IF val.v >= 1 /\ val.v <= 8 THEN Found(val.v)
                 ELSE IFDEntries(tiff, le, pos + 12, i + 1, count, bits)
          ELSE IFDEntries(tiff, le, pos + 12, i + 1, count, bits)

parseTIFFOrientation(tiff, bits) ==
  IF Len(tiff) < 8 THEN NotFound
  ELSE IF <<tiff[1], tiff[2]>> \notin {<<73, 73>>, <<77, 77>>} THEN NotFound
  ELSE LET le == tiff[1] = 73
           magic == TiffU16(tiff, le, 2, bits)
           o32 == TiffU32(tiff, le, 4, bits)
           off0 == IntOfU32(o32.hi, o32.lo, bits)
       IN IF magic.oob THEN Panic
          ELSE IF magic.v # 42 THEN NotFound
          ELSE IF o32.oob THEN Panic
          ELSE IF off0 <= 0 \/ Plus(off0, 2, bits) > Len(tiff) THEN NotFound
          ELSE LET count == TiffU16(tiff, le, off0, bits)
               IN IF count.oob THEN Panic
                  ELSE IFDEntries(tiff, le, off0 + 2, 0, count.v, bits)


\* b[lo:hi] as a sequence (0 <= lo <= hi <= len(b))
Slice(b, lo, hi) == SubSeq(b, lo + 1, hi)

looksLikeJPEG(b) == Len(b) >= 2 /\ b[1] = 255 /\ b[2] = 216

\* b[i] is read with i inside the buffer
IndexOK(b, i) == 0 <= i /\ i < Len(b)

\* "Exif\x00\x00"
ExifHeader == <<69, 120, 105, 102, 0, 0>>

\* the loop `for i+4 <= len(b)` of parseEXIFOrientationJPEG with i at the
\* start of a segment; n counts the iterations made so far
RECURSIVE ScanSegments(_, _, _, _)
ScanSegments(b, i, n, bits) ==
  IF ~(i + 4 <= Len(b)) THEN [r |-> NotFound, n |-> n]
  ELSE IF ~IndexOK(b, i) THEN [r |-> Panic, n |-> n]
  ELSE IF b[i + 1] # 255 THEN [r |-> NotFound, n |-> n + 1]
  ELSE IF i + 1 >= Len(b) THEN [r |-> NotFound, n |-> n + 1]
  ELSE IF ~IndexOK(b, i + 1) THEN [r |-> Panic, n |-> n + 1]
  ELSE LET marker == b[i + 2]
           j == i + 2
       IN IF marker = 218 \/ marker = 217 THEN [r |-> NotFound, n |-> n + 1]
          ELSE IF j + 2 > Len(b) THEN [r |-> NotFound, n |-> n + 1]
          ELSE IF ~SliceOK(b, j, j + 2) THEN [r |-> Panic, n |-> n + 1]
          ELSE LET segLen == 256 * b[j + 1] + b[j + 2]
                   k == j + 2
               IN IF segLen < 2 \/ k + segLen - 2 > Len(b)
                    THEN [r |-> NotFound, n |-> n + 1]
                  ELSE IF marker = 225 /\ segLen >= 10
                    THEN IF ~SliceOK(b, k, k + segLen - 2)
                           THEN [r |-> Panic, n |-> n + 1]
                         ELSE LET seg == Slice(b, k, k + segLen - 2)
                                  t == parseTIFFOrientation(
                                         Slice(seg, 6, Len(seg)), bits)
                              IN IF Len(seg) >= 6 /\ Slice(seg, 0, 6) = ExifHeader
                                      /\ (t.ok \/ t.panic)
                                   THEN [r |-> t, n |-> n + 1]
                                 ELSE ScanSegments(b, k + segLen - 2, n + 1, bits)
                  ELSE ScanSegments(b, k + segLen - 2, n + 1, bits)

parseEXIFOrientationJPEG(b, bits) ==
  IF ~looksLikeJPEG(b) THEN [r |-> NotFound, n |-> 0]
  ELSE ScanSegments(b, 2, 0, bits)


\* ---- buffers for the reader ----------------------------------------------
\* a 16-bit and a 32-bit value in the byte order of a TIFF block
U16B(v, le) == IF le THEN <<v % 256, v \div 256>> ELSE <<v \div 256, v % 256>>
U32B(hi, lo, le) ==
  IF le THEN U16B(lo, le) \o U16B(hi, le) ELSE U16B(hi, le) \o U16B(lo, le)

Zeros(n) == [k \in 1..n |-> 0]

RECURSIVE Flatten(_)
Flatten(ss) == IF ss = <<>> THEN <<>> ELSE Head(ss) \o Flatten(Tail(ss))

\* a 12-byte IFD entry: tag, type, count, value (a SHORT is left-justified)
IFDEntry(tag, typ, cnt, val, le) ==
  U16B(tag, le) \o U16B(typ, le) \o U32B(0, cnt, le) \o U16B(val, le) \o <<0, 0>>

\* a TIFF block: byte order, 42, the offset field (hi, lo) of the first IFD,
\* pad bytes, the IFD with its entries, the offset of the next IFD (none)
TiffBlock(le, hi, lo, pad, entries) ==
  (IF le THEN <<73, 73>> ELSE <<77, 77>>) \o U16B(42, le) \o U32B(hi, lo, le)
    \o Zeros(pad) \o U16B(Len(entries), le) \o Flatten(entries) \o U32B(0, 0, le)

\* a JPEG segment: 0xFF, the marker, the big-endian length, the payload
Segment(marker, payload) ==
  <<255, marker>> \o U16B(Len(payload) + 2, FALSE) \o payload

ExifSegment(tiff) == Segment(225, ExifHeader \o tiff)

\* SOI, the segments, then SOS (with an empty header) and EOI
Jpeg(segs) == <<255, 216>> \o segs \o <<255, 218, 0, 2, 255, 217>>

\* the entry that carries orientation v
OrientationEntry(v, cnt, le) == IFDEntry(274, 3, cnt, v, le)

\* what may precede the Exif segment: nothing, a JFIF APP0 segment, an APP1
\* segment that is not Exif, an Exif segment without the orientation tag
Leads ==
  {<<>>,
   Segment(224, <<74, 70, 73, 70, 0>>),
   Segment(225, <<104, 116, 116, 112, 58, 47, 47, 110>>),
   ExifSegment(TiffBlock(TRUE, 0, 8, 0, <<IFDEntry(271, 2, 1, 0, TRUE)>>))}

\* what may precede the orientation entry in the IFD: nothing, another tag,
\* the tag with type LONG, the tag with a value outside 1..8
Befores(le) ==
  <<<<>>,
    <<IFDEntry(271, 2, 1, 0, le)>>,
    <<IFDEntry(274, 4, 1, 3, le)>>,
    <<IFDEntry(274, 3, 1, 9, le)>>>>

\* well-formed buffers that carry orientation v
WellFormed ==
  {[kind |-> "wellformed", v |-> v, bits |-> bits, le |-> le,
    b |-> Jpeg(lead \o ExifSegment(
            TiffBlock(le, 0, 8 + pad, pad,
                      Befores(le)[k] \o <<OrientationEntry(v, cnt, le)>>)))] :
     v \in 1..8, le \in BOOLEAN, lead \in Leads, pad \in {0, 2},
     k \in 1..4, cnt \in {1, 2}, bits \in IntBits}

\* the only Exif segment comes after SOS or EOI
AfterScan ==
  {[kind |-> "afterscan", v |-> v, bits |-> bits, le |-> le,
    b |-> <<255, 216, 255, m, 0, 2>> \o ExifSegment(
            TiffBlock(le, 0, 8, 0, <<OrientationEntry(v, 1, le)>>))] :
     v \in 1..8, le \in BOOLEAN, m \in {217, 218}, bits \in IntBits}


\* the buffers that are damaged below: a JFIF segment or nothing, then the
\* Exif segment with orientation 6 alone in the IFD. exif is the offset of
\* the Exif segment, tiff that of its TIFF block, end that of its last byte
\* plus one.
Bases ==
  {[b |-> Jpeg(lead \o ExifSegment(
             TiffBlock(le, 0, 8, 0, <<OrientationEntry(6, 1, le)>>))),
    le |-> le, exif |-> 2 + Len(lead), tiff |-> 2 + Len(lead) + 10,
    end |-> 2 + Len(lead) + 10 + 26] :
     le \in BOOLEAN, lead \in {<<>>, Segment(224, <<74, 70, 73, 70, 0>>)}}

\* every prefix of a base
Truncated ==
  UNION {{[kind |-> "truncated", v |-> 6, bits |-> bits, cut |-> n,
           end |-> base.end, b |-> SubSeq(base.b, 1, n)] :
            n \in 0..Len(base.b), bits \in IntBits} : base \in Bases}

\* the bytes written over one byte of a base
ByteVals == {0, 1, 8, 42, 73, 77, 127, 128, 217, 218, 225, 254, 255}

\* the offsets (from the start of the Exif segment) of the bytes none of
\* which can change without the structure being lost: 0xFF and the marker,
\* "Exif\0\0", the byte order, the magic number, the tag and the type
Structural == {0, 1} \cup (4..13) \cup (20..23)

\* a base with the byte at offset p replaced by x; lost: the byte is one of
\* SOI or structural, and x differs from it
Substituted ==
  UNION {{[kind |-> "substituted", v |-> 6, bits |-> bits,
           lost |-> (p < 2 \/ (p - base.exif) \in Structural) /\ base.b[p + 1] # x,
           b |-> [base.b EXCEPT ![p + 1] = x]] :
            p \in 0..(Len(base.b) - 1), x \in ByteVals, bits \in IntBits} :
         base \in Bases}

\* offset fields (hi, lo) of the first IFD that point nowhere in the block:
\* zero, past the end, negative as a 32-bit int, at the top of its range
BadOffsets ==
  {<<0, 0>>, <<0, 25>>, <<0, 26>>, <<0, 65535>>, <<1, 0>>, <<32767, 65533>>,
   <<32767, 65534>>, <<32767, 65535>>, <<32768, 0>>, <<65535, 65535>>}

Misplaced ==
  {[kind |-> "misplaced", v |-> 6, bits |-> bits,
    b |-> Jpeg(ExifSegment(
            TiffBlock(le, o[1], o[2], 0, <<OrientationEntry(6, 1, le)>>)))] :
     o \in BadOffsets, le \in BOOLEAN, bits \in IntBits}

\* every buffer of up to MaxRaw bytes over the bytes the scanner tests for
RawBytes == {0, 216, 225, 255}

Raw ==
  UNION {{[kind |-> "raw", v |-> 0, bits |-> bits, b |-> b] :
            b \in [1..n -> RawBytes], bits \in IntBits} : n \in 0..MaxRaw}

\* the reader called the way applyEXIFOrientation calls it
Call_parseEXIFOrientationJPEG ==
  /\ call.fn = "parseEXIFOrientationJPEG"
  /\ LET o == parseEXIFOrientationJPEG(call.in.b, call.in.bits)
     IN Return([ori |-> o.r.ori, ok |-> o.r.ok, panic |-> o.r.panic, n |-> o.n])


\* ---- transformByOrientation ----------------------------------------------
\* the pixels of a w x h image, each named by its place
Pixels(w, h) == (0..(w - 1)) \X (0..(h - 1))

\* variant: codes 6 and 8 turn the other way
SetAt_Swapped(ori, x, y, w, h) ==
  CASE ori = 2 -> <<w - 1 - x, y>>
    [] ori = 3 -> <<w - 1 - x, h - 1 - y>>
    [] ori = 4 -> <<x, h - 1 - y>>
    [] ori = 5 -> <<y, x>>
    [] ori = 6 -> <<y, w - 1 - x>>
    [] ori = 7 -> <<h - 1 - y, w - 1 - x>>
    [] ori = 8 -> <<h - 1 - y, x>>

\* the point of dst that `dst.Set(..., src.At(x, y))` names in case ori
SetAt(ori, x, y, w, h) ==
  CASE ori = 2 -> <<w - 1 - x, y>>
    [] ori = 3 -> <<w - 1 - x, h - 1 - y>>
    [] ori = 4 -> <<x, h - 1 - y>>
    [] ori = 5 -> <<y, x>>
    [] ori = 6 -> <<h - 1 - y, x>>
    [] ori = 7 -> <<h - 1 - y, w - 1 - x>>
    [] ori = 8 -> <<y, w - 1 - x>>

\* image.NewRGBA(image.Rect(0, 0, ., .)) of case ori
NewRGBA(ori, w, h) ==
  IF ori \in 2..4 THEN [w |-> w, h |-> h] ELSE [w |-> h, h |-> w]

\* The loops call dst.Set once for every source pixel; RGBA.Set does nothing
\* for a point outside the canvas. from: for each point of dst the source
\* pixels set there; outside: the source pixels set nowhere.
transformByOrientation(w, h, ori) ==
  IF ori \notin 2..8 THEN [same |-> TRUE, w |-> w, h |-> h]
  ELSE LET d == NewRGBA(ori, w, h)
       IN [same |-> FALSE, w |-> d.w, h |-> d.h,
           from |-> [q \in Pixels(d.w, d.h) |->
                      {p \in Pixels(w, h) : SetAt(ori, p[1], p[2], w, h) = q}],
           outside |-> {p \in Pixels(w, h) :
                          SetAt(ori, p[1], p[2], w, h) \notin Pixels(d.w, d.h)}]

Grids == [w : 1..MaxGrid, h : 1..MaxGrid, ori : 0..9]

Call_transformByOrientation ==
  /\ call.fn = "transformByOrientation"
  /\ Return(transformByOrientation(call.in.w, call.in.h, call.in.ori))

\* ---- ListImagesToOptimize on stores in every order ------------------------
\* the row of a store: created at time t, optimized or not
RowAt(t, o) == [data |-> GainImg.data, mime |-> GainImg.mime,
                optimized |-> o, createdAt |-> t]

\* stores of up to MaxRows rows, created in every order (ids say nothing
\* about the order), each row absent, optimized or not
Stores ==
  {[i \in IDs |-> IF i \in 1..MaxRows /\ k[i] # "absent"
                    THEN RowAt(t[i], k[i] = "optimized") ELSE NoImage] :
     k \in [1..MaxRows -> {"absent", "optimized", "eligible"}],
     t \in {f \in [1..MaxRows -> 1..MaxRows] :
              \A i, j \in 1..MaxRows : i # j => f[i] # f[j]}}

ListArgs == [st : Stores, n : 1..(MaxRows + 1)]

\* lines 117-125 of optimizeImagesBatch: the query and stats.found
Call_ListImagesToOptimize ==
  /\ call.fn = "ListImagesToOptimize"
  /\ LET found == ListImagesToOptimize(call.in.st, call.in.n)
     IN Return([imgs |-> found, stats |-> [ZeroStats EXCEPT !.found = Len(found)]])

\* ---- the functions alone --------------------------------------------------
InitPure ==
  /\ ServerIdle
  /\ call \in {Pend("NextSleep", a) : a \in Outcomes}
       \cup {Pend("optimizeBytes", a) : a \in LenArgs \cup DimArgs}
       \cup {Pend("parseEXIFOrientationJPEG", a) :
               a \in WellFormed \cup AfterScan \cup Truncated \cup Substituted
                       \cup Misplaced \cup Raw}
       \cup {Pend("transformByOrientation", a) : a \in Grids}
       \cup {Pend("ListImagesToOptimize", a) : a \in ListArgs}

NextPure ==
  \/ Call_NextSleep
  \/ Call_optimizeBytes
  \/ Call_parseEXIFOrientationJPEG
  \/ Call_transformByOrientation
  \/ Call_ListImagesToOptimize

SpecPure == InitPure /\ [][NextPure]_vars


\* ==== properties of the functions ========================================
\* the call of f has returned
Done(f) == call.fn = f /\ call.done

\* ---- C11 -----------------------------------------------------------------
\* C11: the delay is fixed by the batch's error and found count alone: an
\* error gives the 15 s backoff whatever was found; without error, found = 0
\* gives 60 s, 0 < found < limit (the loop's limit, 10) gives 10 s, and
\* found >= limit gives no delay (time.Sleep is not called).
C11_DelayTiers ==
  Done("NextSleep") =>
    LET a == call.in
        d == call.out.sleep
    IN /\ a.err => (d = sleepError /\ sleepError = 15)
       /\ (~a.err /\ a.found = 0) => (d = sleepIdle /\ sleepIdle = 60)
       /\ (~a.err /\ 0 < a.found /\ a.found < limit) =>
            (d = sleepPartial /\ sleepPartial = 10)
       /\ (~a.err /\ a.found >= limit) => (d = 0 /\ ~call.out.sleeps)
       /\ call.out.sleeps = (d > 0)

\* a batch that failed although it found a full list is followed by the
\* error backoff
C11_Witness ==
  /\ Done("NextSleep")
  /\ call.in.err
  /\ call.in.found = limit
  /\ call.out.sleep = sleepError
  /\ call.out.sleeps

\* ---- C12 -----------------------------------------------------------------
\* the delays after a full batch, after an idle batch and after an error
DelayFull == NextSleep(FALSE, limit)
DelayIdle == NextSleep(FALSE, 0)
DelayError == NextSleep(TRUE, 0)

\* C12 as stated: delay(error) < delay(full) = 0 < delay(partial) <
\* delay(idle), for every outcome the loop can be handed.
C12_BackoffShape ==
  Done("NextSleep") =>
    LET a == call.in
        d == call.out.sleep
    IN /\ a.err => d < DelayFull
       /\ (~a.err /\ a.found = limit) => d = 0
       /\ (~a.err /\ 0 < a.found /\ a.found < limit) => (0 < d /\ d < DelayIdle)

\* C12 as the code has it: delay(full) = 0 < delay(partial) < delay(error)
\* < delay(idle).
C12_BackoffShapeAmended ==
  Done("NextSleep") =>
    LET a == call.in
        d == call.out.sleep
    IN /\ a.err => (d < DelayIdle /\ \A f \in 1..(limit - 1) : NextSleep(FALSE, f) < d)
       /\ (~a.err /\ a.found = limit) => d = 0
       /\ (~a.err /\ 0 < a.found /\ a.found < limit) =>
            (0 < d /\ d < DelayError /\ d < DelayIdle)
       /\ (~a.err /\ a.found = 0) => d > DelayError

\* the delay after an error lies between the partial and the idle delay
C12_Witness ==
  /\ Done("NextSleep")
  /\ call.in.err
  /\ call.out.sleep > NextSleep(FALSE, limit - 1)
  /\ call.out.sleep < DelayIdle
  /\ DelayFull = 0


\* ---- C13 -----------------------------------------------------------------
\* the loop is about to call logOptimizeRun
AtCall == pc[1] = "call"

\* C13: the loop always has a next step, and it starts a batch again and
\* again, whatever the batches return (a listing error, nothing found, every
\* record failing to decode or to be written).
C13_NeverStops ==
  /\ [](ENABLED LoopStep(1))
  /\ []<>AtCall
  /\ []<>(~AtCall)

\* the loop is about to start a batch after one in which every record failed
C13_Witness ==
  /\ AtCall
  /\ curLimit[1] = limit
  /\ stats[1].found > 0
  /\ stats[1].decodeErrors + stats[1].dbErrors = stats[1].found


\* ---- C14 -----------------------------------------------------------------
\* C14: for bytes that decode, of length L0 > 0, with a candidate of length
\* L1: optimizeBytes returns the candidate with mime "image/webp" and
\* same = false if and only if (L0 - L1) / L0 >= 3 / 100, and otherwise the
\* bytes and mime it was given with same = true; for L0 = 100 it keeps the
\* original at L1 = 98, rewrites at L1 = 95 and at L1 = 97, and keeps the
\* original whenever L1 > L0; with and without a resize.
C14_GainThreshold ==
  (Done("optimizeBytes") /\ call.in.b.dec /\ call.in.b.len > 0) =>
    LET a == call.in
        L0 == a.b.len
        L1 == a.b.enc
        res == call.out.res
        accepted == /\ ~res.same
                    /\ res.data.len = L1
                    /\ res.mime = "image/webp"
        rejected == /\ res.same
                    /\ res.data = a.b
                    /\ res.mime = a.mime
    IN /\ ~res.err
       /\ accepted = (100 * (L0 - L1) >= 3 * L0)
       /\ rejected = ~accepted
       /\ L1 > L0 => rejected
       /\ (L0 = 100 /\ L1 = 98) => rejected
       /\ (L0 = 100 /\ L1 \in {95, 97}) => accepted

\* a resized candidate that gains exactly 3 % has been accepted
C14_Witness ==
  /\ Done("optimizeBytes")
  /\ call.in.b.len = 100
  /\ call.in.b.enc = 97
  /\ call.out.dims.resized
  /\ ~call.out.res.same
  /\ call.out.res.data.len = 97


\* ---- C15 -----------------------------------------------------------------
\* the buffer of the call holds no intact Exif structure: it is arbitrary
\* and too short for one, cut inside the Exif segment, damaged in a
\* structural byte, or its first IFD is misplaced
NoStructure ==
  \/ call.in.kind = "raw"
  \/ call.in.kind = "truncated" /\ call.in.cut < call.in.end
  \/ call.in.kind = "substituted" /\ call.in.lost
  \/ call.in.kind = "misplaced"

\* C15: for every buffer, parseEXIFOrientationJPEG returns after at most
\* len(b)/4 iterations without an index or a slice outside the buffer, its
\* orientation is in 1..8, it is 1 when nothing was found, and (1, not found)
\* is returned when the structure is absent, truncated or malformed.
C15_TolerantReader ==
  Done("parseEXIFOrientationJPEG") =>
    LET o == call.out
    IN /\ ~o.panic
       /\ o.n = 0 \/ 4 * o.n + 2 <= Len(call.in.b)
       /\ o.ori \in 1..8
       /\ ~o.ok => o.ori = 1
       /\ NoStructure => (o.ori = 1 /\ ~o.ok)


\* ---- C16 -----------------------------------------------------------------
\* C16: for a buffer that starts with SOI and holds, before SOS and EOI, an
\* Exif APP1 segment whose TIFF block ("II" or "MM", 42) has in its first IFD
\* an entry with tag 0x0112, type 3 and value v in 1..8, the reader returns
\* (v, found), in both byte orders, whatever segments precede it and whatever
\* entries without a usable orientation precede the entry; when the only
\* Exif segment follows SOS or EOI it returns (1, not found).
C16_ReaderResult ==
  Done("parseEXIFOrientationJPEG") =>
    /\ call.in.kind = "wellformed" =>
         (call.out.ok /\ call.out.ori = call.in.v /\ ~call.out.panic)
    /\ call.in.kind = "afterscan" =>
         (~call.out.ok /\ call.out.ori = 1 /\ ~call.out.panic)

\* orientation 8 has been read from a big-endian block in the second segment
C16_Witness ==
  /\ Done("parseEXIFOrientationJPEG")
  /\ call.in.kind = "wellformed"
  /\ ~call.in.le
  /\ call.out.n = 2
  /\ call.out.ok
  /\ call.out.ori = 8


\* ---- C17 -----------------------------------------------------------------
\* where the source pixel (x, y) of a w x h image belongs under code ori
Lands(ori, x, y, w, h) ==
  IF ori = 2 THEN <<w - 1 - x, y>>
  ELSE IF ori = 3 THEN <<w - 1 - x, h - 1 - y>>
  ELSE IF ori = 4 THEN <<x, h - 1 - y>>
  ELSE IF ori = 5 THEN <<y, x>>
  ELSE IF ori = 6 THEN <<h - 1 - y, x>>
  ELSE IF ori = 7 THEN <<h - 1 - y, w - 1 - x>>
  ELSE <<y, w - 1 - x>>

\* C17: for the codes 2..8 the canvas is w x h (codes 2-4) or h x w (codes
\* 5-8), every point of it is set exactly once, no Set falls outside it, and
\* the source pixel (x, y) is the one set at Lands(ori, x, y, w, h); for
\* every other code the source is returned as it is.
C17_Transforms ==
  Done("transformByOrientation") =>
    LET w == call.in.w
        h == call.in.h
        ori == call.in.ori
        o == call.out
    IN /\ ori \notin 2..8 => (o.same /\ o.w = w /\ o.h = h)
       /\ ori \in 2..8 =>
            /\ ~o.same
            /\ ori \in 2..4 => (o.w = w /\ o.h = h)
            /\ ori \in 5..8 => (o.w = h /\ o.h = w)
            /\ DOMAIN o.from = Pixels(o.w, o.h)
            /\ o.outside = {}
            /\ \A q \in DOMAIN o.from : Cardinality(o.from[q]) = 1
            /\ \A p \in Pixels(w, h) :
                 /\ Lands(ori, p[1], p[2], w, h) \in DOMAIN o.from
                 /\ o.from[Lands(ori, p[1], p[2], w, h)] = {p}

\* a 2 x 3 image has been turned by code 6: its pixel (0, 0) is at (2, 0)
\* of a 3 x 2 canvas
C17_Witness ==
  /\ Done("transformByOrientation")
  /\ call.in = [w |-> 2, h |-> 3, ori |-> 6]
  /\ call.out.w = 3
  /\ call.out.h = 2
  /\ call.out.from[<<2, 0>>] = {<<0, 0>>}


\* ---- C18 -----------------------------------------------------------------
Abs(x) == IF x >= 0 THEN x ELSE -x

\* s = min(maxW/w, maxH/h) as the fraction ScaleNum / ScaleDen
ScaleNum(w, h, maxW, maxH) == IF maxW * h <= maxH * w THEN maxW ELSE maxH
ScaleDen(w, h, maxW, maxH) == IF maxW * h <= maxH * w THEN w ELSE h

\* out is within one half of n * s
Near(out, n, sn, sd) == 2 * Abs(out * sd - n * sn) <= sd

\* C18 as stated: for w, h >= 1 in a box maxW, maxH >= 1 the output is w, h
\* when s >= 1, it lies in 1..maxW and 1..maxH, and when s < 1 each output
\* dimension is within 0.5 of w * s and h * s.
C18_AspectAndBounds ==
  (Done("optimizeBytes") /\ call.in.b.dec) =>
    LET w == call.in.b.w
        h == call.in.b.h
        sn == ScaleNum(w, h, call.in.maxW, call.in.maxH)
        sd == ScaleDen(w, h, call.in.maxW, call.in.maxH)
        d == call.out.dims
    IN /\ 1 <= d.w /\ d.w <= call.in.maxW
       /\ 1 <= d.h /\ d.h <= call.in.maxH
       /\ sn >= sd => (d.w = w /\ d.h = h)
       /\ sn < sd => (Near(d.w, w, sn, sd) /\ Near(d.h, h, sn, sd))

\* C18 as the code has it: the same, but a dimension whose scaled value is
\* below 0.5 is 1, not within 0.5 of it.
C18_AspectAndBoundsAmended ==
  (Done("optimizeBytes") /\ call.in.b.dec) =>
    LET w == call.in.b.w
        h == call.in.b.h
        sn == ScaleNum(w, h, call.in.maxW, call.in.maxH)
        sd == ScaleDen(w, h, call.in.maxW, call.in.maxH)
        d == call.out.dims
    IN /\ 1 <= d.w /\ d.w <= call.in.maxW
       /\ 1 <= d.h /\ d.h <= call.in.maxH
       /\ sn >= sd => (d.w = w /\ d.h = h)
       /\ sn < sd =>
            /\ IF 2 * w * sn < sd THEN d.w = 1 ELSE Near(d.w, w, sn, sd)
            /\ IF 2 * h * sn < sd THEN d.h = 1 ELSE Near(d.h, h, sn, sd)

\* a 9 x 1 image in a box 3 wide has become 3 x 1: its height, one third
\* when scaled, is 1
C18_Witness ==
  /\ Done("optimizeBytes")
  /\ call.in.b.w = 9
  /\ call.in.b.h = 1
  /\ call.in.maxW = 3
  /\ call.out.dims = [w |-> 3, h |-> 1, resized |-> TRUE]


\* ---- C19 -----------------------------------------------------------------
\* C19: an image with w <= maxW and h <= maxH is not resized (the encoded
\* image has its dimensions) but is still encoded and put to the gain check;
\* an image is resized only when w > maxW or h > maxH, and then neither
\* dimension grows.
C19_NoUpscale ==
  (Done("optimizeBytes") /\ call.in.b.dec) =>
    LET a == call.in
        d == call.out.dims
        res == call.out.res
    IN /\ (a.b.w <= a.maxW /\ a.b.h <= a.maxH) =>
            /\ ~d.resized
            /\ d.w = a.b.w /\ d.h = a.b.h
            /\ ~res.err
            /\ res.same = (100 * (a.b.len - a.b.enc) < 3 * a.b.len)
            /\ ~res.same => /\ res.data.len = a.b.enc
                            /\ res.data.w = a.b.w /\ res.data.h = a.b.h
                            /\ res.mime = "image/webp"
       /\ d.resized =>
            /\ a.b.w > a.maxW \/ a.b.h > a.maxH
            /\ d.w <= a.b.w /\ d.h <= a.b.h

\* an image that fits the box has been encoded at its size and accepted
C19_Witness ==
  /\ Done("optimizeBytes")
  /\ call.in.b.w <= call.in.maxW
  /\ call.in.b.h <= call.in.maxH
  /\ ~call.out.dims.resized
  /\ ~call.out.res.same
  /\ call.out.res.data.w = call.in.b.w
  /\ call.out.res.data.len < call.in.b.len


\* ---- C20 -----------------------------------------------------------------
\* C20: ListImagesToOptimize(n) returns at most n rows, as many as are
\* eligible up to n, each one a row of the store with optimized = false, as
\* stored, none twice, oldest first; no eligible row left out was created
\* before a returned one; stats.found is the number returned and the other
\* counters are zero.
C20_CandidateSelection ==
  Done("ListImagesToOptimize") =>
    LET st == call.in.st
        got == call.out.imgs
        ids == {got[k].id : k \in 1..Len(got)}
        eligible == {i \in IDs : st[i] # NoImage /\ ~st[i].optimized}
    IN /\ Len(got) <= call.in.n
       /\ Len(got) = Min(call.in.n, Cardinality(eligible))
       /\ Cardinality(ids) = Len(got)
       /\ ids \subseteq eligible
       /\ \A k \in 1..Len(got) : /\ got[k].data = st[got[k].id].data
                                 /\ got[k].mime = st[got[k].id].mime
       /\ \A k \in 1..(Len(got) - 1) :
            st[got[k].id].createdAt < st[got[k + 1].id].createdAt
       /\ \A j \in eligible \ ids : \A i \in ids :
            ~(st[j].createdAt < st[i].createdAt)
       /\ call.out.stats = [ZeroStats EXCEPT !.found = Len(got)]

\* the limit has cut the list: the one row returned is the oldest eligible
\* one, an eligible row with a smaller id is left out and an older row is
\* passed over because it is optimized
C20_Witness ==
  /\ Done("ListImagesToOptimize")
  /\ call.in.n = 1
  /\ call.out.stats.found = 1
  /\ \E j \in IDs : /\ call.in.st[j] # NoImage
                    /\ ~call.in.st[j].optimized
                    /\ j < call.out.imgs[1].id
  /\ \E j \in IDs : /\ call.in.st[j] # NoImage
                    /\ call.in.st[j].optimized
                    /\ call.in.st[j].createdAt
                         < call.in.st[call.out.imgs[1].id].createdAt

\* ---- C21 -----------------------------------------------------------------
\* a worker of loop l is inside the transform of a job
Busy(l) == {w \in 1..MaxCPU : wk[l][w].st = "busy"}

\* row id of the batch in progress is persisted as optimized while a worker
\* of the same batch is still processing another row
CommittedMidBatch(id) ==
  /\ pc[1] = "batch"
  /\ id \in BatchIDs(1)
  /\ store[id] # NoImage
  /\ store[id].optimized
  /\ \E w \in Busy(1) : wk[1][w].im.id # id

\* C21: within one batch no row's outcome is written to the store until
\* every worker of the batch has finished its transform work: no row of the
\* batch is persisted as optimized while a worker is still processing
\* another row of the same batch.
C21_NoPartialCommits ==
  /\ [](\A id \in IDs : ~CommittedMidBatch(id))
  /\ [][\A id \in IDs : StoreWrite(1, id) => Busy(1) = {}]_vars

\* C21 as the code has it: a row's outcome is written only after the worker
\* that took the row has finished with it, and the batch returns only when
\* the feeder has handed over every job, no worker is processing and every
\* result has been received; the writes for the rows that are ready are made
\* while other rows of the batch are still being processed.
C21_NoPartialCommitsAmended ==
  /\ [](\A id \in IDs : ~(pc[1] = "batch" /\ store[id] # NoImage /\ store[id].optimized
                            /\ \E w \in Busy(1) : wk[1][w].im.id = id))
  /\ []((pc[1] = "returned" /\ Len(imgs[1]) > 0) =>
          /\ Busy(1) = {}
          /\ fed[1] = Len(imgs[1])
          /\ results[1] = <<>>
          /\ collected[1] = Len(imgs[1]))
  /\ [][\A id \in IDs :
          StoreWrite(1, id) =>
            /\ \A w \in Busy(1) : wk[1][w].im.id # id
            /\ \E k \in 1..fed[1] : imgs[1][k].id = id]_vars

\* a row of the batch is optimized in the store while a worker is busy with
\* its sibling
C21_Witness ==
  /\ pc[1] = "batch"
  /\ Busy(1) # {}
  /\ collected[1] = 1
  /\ \E id \in BatchIDs(1) : CommittedMidBatch(id)

\* ---- C22 -----------------------------------------------------------------
\* the workers of loop l that have not returned
Active(l) == {w \in 1..MaxCPU : wk[l][w].st \in {"idle", "busy"}}

\* a step of a goroutine of the batch in progress: feeder and worker meet on
\* jobs, a worker sends its result, the collector receives one
BatchStep(l) ==
  \/ \E w \in 1..MaxCPU : WorkerRecv(l, w)
  \/ \E w \in 1..MaxCPU : WorkerProcess(l, w)
  \/ \E ok \in BOOLEAN : Collect(l, ok)

InBatch == pc[1] = "batch"
Returned == pc[1] = "returned"

\* C22: for every non-empty candidate list of n rows and every number of
\* workers from 1 to n, under every interleaving, the batch never deadlocks
\* and terminates; it starts min(NumCPU, n) workers; it returns only when
\* exactly n results were collected; a send on results never finds the
\* channel full; and no worker waits for ever: when the batch returns the
\* jobs channel is closed and every worker has returned.
C22_BarrierAndTermination ==
  /\ [](InBatch => /\ ENABLED BatchStep(1)
                   /\ Len(imgs[1]) > 0
                   /\ Cardinality({w \in 1..MaxCPU : wk[1][w].st # "none"})
                        = Workers(Len(imgs[1]))
                   /\ Workers(Len(imgs[1])) \in 1..Len(imgs[1])
                   /\ collected[1] < Len(imgs[1])
                   /\ Len(results[1]) + collected[1] <= fed[1]
                   /\ Len(results[1]) <= Len(imgs[1]))
  /\ []((Returned /\ ~err[1]) => /\ collected[1] = Len(imgs[1])
                                 /\ collected[1] = stats[1].found
                                 /\ results[1] = <<>>
                                 /\ Active(1) = {}
                                 /\ (Len(imgs[1]) > 0 => closed[1]))
  /\ [][(InBatch /\ Returned') => collected'[1] = Len(imgs[1])]_vars
  /\ (InBatch ~> Returned)
  /\ []<>(Active(1) = {})

\* a batch of two rows run by two workers has returned: both results were
\* collected and both workers have returned
C22_Witness ==
  /\ Returned
  /\ Len(imgs[1]) = 2
  /\ collected[1] = 2
  /\ Cardinality({w \in 1..MaxCPU : wk[1][w].st = "done"}) = 2
  /\ closed[1]

\* ---- C23 -----------------------------------------------------------------
\* how many workers hold row id as their job, plus how many results for it
\* wait in the results channel
InFlight(l, id) ==
  Cardinality({w \in Busy(l) : wk[l][w].im.id = id})
    + Cardinality({j \in 1..Len(results[l]) : results[l][j].im.id = id})

\* the positions of the candidate list whose job was received and whose
\* result the collector has taken
Gone(l) == {k \in 1..fed[l] : InFlight(l, imgs[l][k].id) = 0}

\* this step is a worker of loop l receiving from jobs
RecvStep(l) == fed'[l] = fed[l] + 1

\* C23: under every interleaving each row of the candidate list is received
\* from jobs by exactly one worker and yields exactly one result: a job is
\* held by at most one worker or waits once in results, never both, a row
\* not yet sent on jobs is nowhere, the rows whose result is gone are as many
\* as the collector has taken, and a result once taken does not come again;
\* so the collector makes at most one store write per row per batch.
C23_ExclusiveOwnership ==
  /\ [](/\ Cardinality(BatchIDs(1)) = Len(imgs[1])
        /\ \A k \in 1..Len(imgs[1]) :
             /\ InFlight(1, imgs[1][k].id) <= 1
             /\ k > fed[1] => InFlight(1, imgs[1][k].id) = 0
        /\ \A w \in Busy(1) : \E k \in 1..fed[1] : wk[1][w].im = imgs[1][k]
        /\ \A j \in 1..Len(results[1]) : \E k \in 1..fed[1] : results[1][j].im = imgs[1][k]
        /\ Cardinality(Gone(1)) = collected[1]
        /\ fed[1] = Cardinality(Busy(1)) + Len(results[1]) + collected[1])
  /\ [][/\ RecvStep(1) =>
             /\ Cardinality({w \in 1..MaxCPU : wk[1][w].st # "busy" /\ wk'[1][w].st = "busy"}) = 1
             /\ \A w \in 1..MaxCPU :
                  (wk[1][w].st # "busy" /\ wk'[1][w].st = "busy")
                    => wk'[1][w].im = imgs[1][fed[1] + 1]
             /\ \A w \in Busy(1) : wk'[1][w] = wk[1][w]
        /\ CollectorStep(1) =>
             \A id \in IDs : \A K \in SUBSET (1..fed[1]) :
               (id = Taken(1).im.id /\ K = {k \in 1..fed[1] : imgs[1][k].id = id}) =>
                 /\ id \in BatchIDs(1)
                 /\ InFlight(1, id) = 1
                 /\ InFlight(1, id)' = 0
                 /\ Gone(1)' = Gone(1) \cup K
                 /\ Gone(1) \cap K = {}]_vars

\* two workers took one row each; the result for one row has been taken by
\* the collector and the result for the other waits in results
C23_Witness ==
  /\ InBatch
  /\ numCPU = 2
  /\ fed[1] = 2
  /\ Cardinality(Gone(1)) = 1
  /\ Len(results[1]) = 1
  /\ collected[1] = 1

\* ---- C24 -----------------------------------------------------------------
\* the batch that has just returned, without error, found as many rows as
\* the limit it was called with
FullBatch == Returned /\ ~err[1] /\ stats[1].found = curLimit[1]

\* C24: after a batch that returned no error and found as many rows as the
\* limit it was run with (the first batch of the loop included), the loop
\* calls the next batch without sleeping.
C24_FullBatchDrains ==
  [][(FullBatch /\ ~Returned') => (pc'[1] = "call" /\ sleep'[1] = 0)]_vars

\* ---- C25 -----------------------------------------------------------------
\* the process dies in any state and is started again: the goroutines and
\* everything they held are gone, the store is what the completed store
\* calls left, and NewServer starts the optimizer loop afresh
Restart(l) ==
  /\ pc' = [pc EXCEPT ![l] = "call"]
  /\ curLimit' = [curLimit EXCEPT ![l] = initialLimit]
  /\ stats' = [stats EXCEPT ![l] = ZeroStats]
  /\ err' = [err EXCEPT ![l] = FALSE]
  /\ sleep' = [sleep EXCEPT ![l] = 0]
  /\ imgs' = [imgs EXCEPT ![l] = <<>>]
  /\ fed' = [fed EXCEPT ![l] = 0]
  /\ closed' = [closed EXCEPT ![l] = FALSE]
  /\ wk' = [wk EXCEPT ![l] = [w \in 1..MaxCPU |-> [st |-> "none", im |-> NoJob]]]
  /\ results' = [results EXCEPT ![l] = <<>>]
  /\ collected' = [collected EXCEPT ![l] = 0]
  /\ UNCHANGED <<call, decoded, store, uploaded, nextID, numCPU>>

\* one server that may crash and be restarted at any point
NextCrash ==
  \/ LoopStep(1)
  \/ Environment
  \/ Restart(1)

SpecCrash == Init /\ [][NextCrash]_vars

\* the data or mime of row id are not the uploaded ones
Rewritten(id) ==
  /\ store[id] # NoImage
  /\ (store[id].data # uploaded[id].data \/ store[id].mime # uploaded[id].mime)

\* C25: in every reachable state, the state at a crash between any two
\* store operations of a batch included, no row has rewritten data or mime
\* while optimized = false: data, mime and the flag change in one store
\* write; so after a restart no row whose rewrite was persisted is listed,
\* handed to a worker or written again.
C25_CrashAtomicity ==
  /\ [](\A id \in IDs : Rewritten(id) => store[id].optimized)
  /\ [][\A id \in IDs :
          /\ (Stays(id) /\ store'[id].data # store[id].data) =>
               (store'[id].mime = "image/webp" /\ store'[id].optimized /\ ~store[id].optimized)
          /\ (Stays(id) /\ store'[id].mime # store[id].mime) =>
               (store'[id].data # store[id].data /\ store'[id].optimized)
          /\ Rewritten(id) =>
               /\ ListStep(1) => id \notin {imgs'[1][k].id : k \in 1..Len(imgs'[1])}
               /\ RecvStep(1) => imgs[1][fed[1] + 1].id # id
               /\ ~StoreWrite(1, id)]_vars

\* the server was restarted after a crash in the middle of a batch: one row
\* of the batch holds its rewritten bytes, the other still waits as uploaded
C25_Witness ==
  /\ pc[1] = "call"
  /\ curLimit[1] = initialLimit
  /\ imgs[1] = <<>>
  /\ \E id \in IDs : Rewritten(id) /\ store[id].optimized
  /\ \E id \in IDs : /\ store[id] # NoImage
                     /\ ~store[id].optimized
                     /\ store[id].data.dec

\* ---- C26 -----------------------------------------------------------------
\* the batch that has returned counted a decode error or a store-write error
CountedErrors == stats[1].decodeErrors + stats[1].dbErrors > 0

\* C26: optimizeImagesBatch returns an error if and only if the listing
\* failed: the error is set by a failing listing and by no other step of the
\* batch; decode errors and store-write errors are counted only, a batch
\* that counted them returns without error, and the delay after it is the
\* one its found count gives (60 s, 10 s or none), never the error backoff.
C26_OnlyListingErrors ==
  /\ [][/\ ListStep(1) => (err'[1] <=> ListFails(1))
        /\ (~ListStep(1)) => err'[1] = err[1]
        /\ CollectorStep(1) =>
             /\ ~err'[1]
             /\ (Outcome(Taken(1)) = "error") =>
                  stats'[1].decodeErrors = stats[1].decodeErrors + 1
        /\ (Returned /\ ~Returned') =>
             sleep'[1] = IF err[1] THEN sleepError
                         ELSE IF stats[1].found = 0 THEN sleepIdle
                         ELSE IF stats[1].found < limit THEN sleepPartial
                         ELSE 0]_vars
  /\ [](CountedErrors => ~err[1])
  /\ [](err[1] => stats[1] = ZeroStats)
  /\ []((pc[1] = "sleeping" /\ CountedErrors) => sleep[1] # sleepError)

\* after a batch in which one row failed to decode and the write for the
\* other failed, the loop sleeps the partial delay
C26_Witness ==
  /\ pc[1] = "sleeping"
  /\ stats[1].decodeErrors = 1
  /\ stats[1].dbErrors = 1
  /\ stats[1].found = 2
  /\ ~err[1]
  /\ sleep[1] = sleepPartial

\* ---- C27 -----------------------------------------------------------------
\* the results of the batch that were counted in one of the four outcomes
Counted(s) == s.resized + s.marked + s.decodeErrors + s.dbErrors

\* C27: for every batch whose listing succeeds the returned statistics
\* satisfy found = resized + marked + decodeErrors + dbErrors and
\* empty <= marked: each collected result adds one to exactly one of the
\* four counters, and found is the length of the candidate list.
C27_CounterConservation ==
  /\ []((Returned /\ ~err[1]) =>
          /\ stats[1].found = Counted(stats[1])
          /\ stats[1].empty <= stats[1].marked
          /\ stats[1].found = Len(imgs[1]))
  /\ [](~err[1] => /\ Counted(stats[1]) = collected[1]
                   /\ stats[1].empty <= stats[1].marked
                   /\ \A f \in DOMAIN stats[1] : stats[1][f] >= 0)
  /\ [][CollectorStep(1) =>
          /\ Counted(stats[1])' = Counted(stats[1]) + 1
          /\ stats'[1].found = stats[1].found
          /\ \A f \in {"resized", "marked", "decodeErrors", "dbErrors"} :
               stats'[1][f] \in {stats[1][f], stats[1][f] + 1}
          /\ stats'[1].empty - stats[1].empty \in {0, 1}
          /\ stats'[1].empty > stats[1].empty => stats'[1].marked > stats[1].marked]_vars

\* a batch of two has returned: the row without bytes was marked (empty and
\* marked), the write for the other row failed
C27_Witness ==
  /\ Returned
  /\ stats[1] = [found |-> 2, resized |-> 0, marked |-> 1, empty |-> 1,
                 decodeErrors |-> 0, dbErrors |-> 1]

\* ---- C28 -----------------------------------------------------------------
\* nothing of a batch of loop l is in progress: no worker waits or works, no
\* result waits, the feeder and the collector are through the list
Quiet(l) ==
  /\ Active(l) = {}
  /\ results[l] = <<>>
  /\ fed[l] = Len(imgs[l])
  /\ collected[l] = Len(imgs[l])

\* the rows this step changes, removes or creates
Touched == {id \in IDs : store'[id] # store[id]}

\* C28: the batches of one server never overlap: the loop lists the next
\* candidates only when the previous batch has returned (all of its results
\* collected, so all of its store writes made) and the chosen sleep is over;
\* the server runs one loop, so at most one batch is in flight; the writes
\* of a batch are made one at a time by the collector, never by a worker.
C28_NoOverlap ==
  /\ [][/\ ListStep(1) => (pc[1] = "call" /\ Quiet(1))
        /\ (pc'[1] = "call" /\ pc[1] # "call") =>
             \/ pc[1] = "sleeping"
             \/ /\ Returned
                /\ ~err[1]
                /\ stats[1].found >= limit
        /\ (Returned /\ (err[1] \/ stats[1].found < limit) /\ ~Returned') =>
             (pc'[1] = "sleeping" /\ sleep'[1] > 0)
        /\ (InBatch /\ ~InBatch') => (Returned' /\ Quiet(1)')
        /\ (wk'[1] # wk[1] \/ fed'[1] # fed[1]) => Touched = {}
        /\ (\E id \in Touched : Stays(id)) =>
             /\ CollectorStep(1)
             /\ Touched = {Taken(1).im.id}
             /\ wk'[1] = wk[1]]_vars
  /\ [](pc[1] # "batch" => Quiet(1))
  /\ [](pc[2] = "call" /\ imgs[2] = <<>> /\ Quiet(2))

\* the loop is about to list again after a batch of two rows whose writes
\* were both made, and after its sleep
C28_Witness ==
  /\ pc[1] = "call"
  /\ curLimit[1] = limit
  /\ Len(imgs[1]) = 2
  /\ Quiet(1)
  /\ stats[1].resized + stats[1].marked = 2
  /\ sleep[1] = 0

\* ---- C29 -----------------------------------------------------------------
\* a row of the candidate list of loop l that is no longer in the store
GoneRows(l) == {id \in BatchIDs(l) : store[id] = NoImage}

\* C29: the optimizer never creates or deletes image rows: no step of the
\* loop or of its batch changes the set of ids in the store, and a write for
\* a row that was deleted after the listing changes nothing: the row is not
\* created again.
C29_NoCreateNoDelete ==
  /\ [][/\ LoopStep(1) => Live(store') = Live(store)
        /\ \A id \in IDs :
             /\ (StoreWrite(1, id) /\ store[id] = NoImage) => store' = store
             /\ (store[id] = NoImage /\ store'[id] # NoImage) =>
                  (id = nextID /\ nextID' = nextID + 1 /\ ~store'[id].optimized)
             /\ (store[id] # NoImage /\ store'[id] = NoImage) =>
                  (~CollectorStep(1) /\ batchVars' = batchVars)]_vars
  /\ [](\A id \in IDs : store[id] # NoImage => id < nextID)

\* a batch of one row has returned counting the row as rewritten, and the
\* row, deleted in the meantime, is not in the store
C29_Witness ==
  /\ Returned
  /\ Len(imgs[1]) = 1
  /\ stats[1].resized = 1
  /\ GoneRows(1) = BatchIDs(1)

\* ---- C30 -----------------------------------------------------------------
\* one call of optimizeImagesBatch(limit) on store st, where the store
\* writes for the rows in fails return an error and all others succeed
BatchArgs ==
  {[st |-> s, fails |-> F] :
     s \in UNION {Pending(n) : n \in 1..MaxImages}, F \in SUBSET (1..MaxImages)}

InitBatch ==
  /\ call \in {Pend("optimizeImagesBatch", a) : a \in BatchArgs}
  /\ store = call.in.st
  /\ uploaded = [i \in IDs |-> IF store[i] = NoImage THEN NoImage
                               ELSE [data |-> store[i].data, mime |-> store[i].mime]]
  /\ nextID = Cardinality(Live(store)) + 1
  /\ numCPU \in 1..MaxCPU
  /\ pc = [l \in Loops |-> "call"]
  /\ curLimit = [l \in Loops |-> limit]
  /\ stats = [l \in Loops |-> ZeroStats]
  /\ err = [l \in Loops |-> FALSE]
  /\ sleep = [l \in Loops |-> 0]
  /\ imgs = [l \in Loops |-> <<>>]
  /\ fed = [l \in Loops |-> 0]
  /\ closed = [l \in Loops |-> FALSE]
  /\ wk = [l \in Loops |-> [w \in 1..MaxCPU |-> [st |-> "none", im |-> NoJob]]]
  /\ results = [l \in Loops |-> <<>>]
  /\ collected = [l \in Loops |-> 0]
  /\ decoded = {}

\* whether the store call for result r returns without error
WriteSucceeds(r) == WriteOp(r) = "none" \/ r.im.id \notin call.in.fails

\* the collector's iteration, the store failing as the pattern says
CollectFixed(l) ==
  /\ results[l] # <<>>
  /\ Collect(l, WriteSucceeds(Head(results[l])))

\* the batch alone, from its listing to its return
NextBatch ==
  \/ ListOK(1)
  \/ \E w \in 1..MaxCPU : WorkerRecv(1, w)
  \/ \E w \in 1..MaxCPU : WorkerProcess(1, w)
  \/ CollectFixed(1)

SpecBatch == InitBatch /\ [][NextBatch]_vars

\* the store and the counters after the first k rows of list were handled
\* one after the other, in list order
RECURSIVE InOrder(_, _, _)
InOrder(a, list, k) ==
  IF k = 0 THEN [store |-> a.st, stats |-> [ZeroStats EXCEPT !.found = Len(list)]]
  ELSE LET p == InOrder(a, list, k - 1)
           r == WorkerResult(list[k])
           ok == WriteOp(r) = "none" \/ list[k].id \notin a.fails
       IN [store |-> IF ok THEN WriteStore(p.store, r) ELSE p.store,
           stats |-> Count(p.stats, r, ok)]

\* what the batch leaves when it runs on input a without any concurrency
Sequential(a) ==
  LET list == ListImagesToOptimize(a.st, limit)
  IN InOrder(a, list, Len(list))

\* C30: for a fixed candidate list, fixed transform results and a fixed
\* pattern of failing store writes, the store and the returned statistics
\* after the batch are those of handling the rows one by one in list order,
\* for every number of workers and every interleaving: the order in which
\* the results arrive does not matter.
C30_InterleavingIndependence ==
  Returned =>
    /\ store = Sequential(call.in).store
    /\ stats[1] = Sequential(call.in).stats
    /\ ~err[1]

\* a batch of two rows run by two workers has returned: one row was
\* rewritten, the write for the other failed
C30_Witness ==
  /\ Returned
  /\ call.fn = "optimizeImagesBatch"
  /\ numCPU = 2
  /\ Len(imgs[1]) = 2
  /\ stats[1].resized = 1
  /\ stats[1].dbErrors = 1
  /\ call.in.fails \cap BatchIDs(1) # {}

====
